---- MODULE Spec2Model ----
(***************************************************************************)
(* State-machine model of fplbase's SDL input backend (src/input_sdl.cpp): *)
(* the per-frame event dispatcher InputSystem::UpdateEvents, the pointer   *)
(* table, the joystick registry, the Android gamepad queue shared with the *)
(* platform callback thread, the lifecycle event filter, and the head      *)
(* mounted display input with its JNI callbacks.                           *)
(*                                                                         *)
(* Code of the repository that input_sdl.cpp calls but does not define     *)
(* (Button::Update, Button::AdvanceFrame, InputSystem::FindPointer,        *)
(* InputSystem::RemovePointer, InputSystem::AdvanceFrame, ...) is modelled  *)
(* from the design document and is marked so where it is defined.          *)
(***************************************************************************)
EXTENDS Integers, Sequences, FiniteSets, TLC

\* ------------------------------------------------------------------------
\* Bounds of the model
\* ------------------------------------------------------------------------

\* number of platform threads that call ReceiveGamepadEvent
NumProducers == 2
\* ReceiveGamepadEvent calls per frame when event contents are unconstrained
MaxFrameCalls == 2
\* dropped ReceiveGamepadEvent calls per frame after which producers pause
MaxDropped == 1

\* events the platform queue can hold at a time
MaxQueue == 2
\* callbacks the application registers for lifecycle events
MaxCallbacks == 2
\* frames counted while lifecycle events are observed
MaxFrames == 1
\* motion events the platform delivers between two calls of AdvanceFrame
MaxFrameMotions == 1
\* calls of HeadMountedDisplayInput::AdvanceFrame
MaxHMDFrames == 2
\* calls of OnTrigger between two calls of AdvanceFrame
MaxTriggers == 2
\* rotation and in-cardboard notifications
MaxNotifications == 2

\* ------------------------------------------------------------------------
\* Program constants
\* ------------------------------------------------------------------------

\* const int kMaxAndroidEventsPerFrame = 100;
kMaxAndroidEventsPerFrame == 100

\* Gamepad::kControlCount, the number of logical controls of a gamepad
\* (fplbase/input.h; the design document lists the twenty controls).
kControlCount == 20

\* static const float kJoystickAxisRange = 32767.0;
kJoystickAxisRange == 32767

\* kGamepadHatThreshold (fplbase/input.h), in the model's coordinate unit:
\* motion coordinates are carried in halves, so 1 stands for 0.5.
kGamepadHatThreshold == 1

\* ------------------------------------------------------------------------
\* State
\* ------------------------------------------------------------------------

VARIABLES
    \* Android gamepad path
    gamepad_map,                  \* InputSystem::gamepad_map_
    unhandled_java_input_events,  \* InputSystem::unhandled_java_input_events_
    android_event_mutex,          \* owner of the mutex, NoThread when free
    pc_recv,                      \* position of each thread in ReceiveGamepadEvent
    recv_ev,                      \* arguments of each thread's call in progress
    pc_handle,                    \* position of the frame thread in HandleGamepadEvents
    burst,                        \* environment: producers flood the queue
    \* observations of the gamepad path
    processed,                    \* serials processed by the current/last drain
    started,                      \* ReceiveGamepadEvent calls begun since the last drain returned
    dropped,                      \* calls since then that pushed nothing
    overlap,                      \* some call overlapped a HandleGamepadEvents call
    unlocked_access,              \* the queue was accessed without the mutex
    edge_down,                    \* gamepad button changed false->true since AdvanceFrame
    edge_up                       \* gamepad button changed true->false since AdvanceFrame

VARIABLES
    \* build and environment of the dispatcher
    platform_mobile,   \* PLATFORM_MOBILE is defined
    event_family,      \* environment: the kinds of events the platform delivers
    sdl_queue,         \* SDL's event queue, read by SDL_PollEvent
    touch_fingers,     \* SDL_GetNumTouchFingers/SDL_GetTouchFinger: fingers down now
    frame_motions,     \* motion events delivered since the last AdvanceFrame
    pc_update,         \* "idle", or "polling" inside UpdateEvents
    \* InputSystem
    button_map,        \* button_map_
    pointers,          \* pointers_
    touch_device,      \* touch_device_
    exit_requested,    \* exit_requested_
    window_size,       \* *window_size, the caller's window size
    record_text_input, \* record_text_input_
    text_input_events, \* text_input_events_
    mousewheel_delta,  \* mousewheel_delta_
    \* observations of the dispatcher
    nchanges,          \* changes of is_down per key since AdvanceFrame, up to 2
    mouse_marked,      \* pointers_[0].used was last set by a mouse button event
    tap,               \* progress of a finger down/up pair begun with no slot used
    update_call,       \* the UpdateEvents call in progress: the queue it found and
                       \* the events SDL_PollEvent has returned to it so far
    after_quit         \* since a quit event was dispatched in this UpdateEvents call:
                       \* events still queued behind it, and whether one was dispatched

input_vars ==
    << platform_mobile, event_family, sdl_queue, touch_fingers, frame_motions,
       pc_update, button_map, pointers, touch_device, exit_requested,
       window_size, record_text_input, text_input_events, nchanges,
       mouse_marked, tap, after_quit, mousewheel_delta, update_call >>

VARIABLES
    \* joysticks
    sdl_joysticks,     \* SDL's list of connected joysticks, by device index
    joystick_map       \* joystick_map_

joystick_vars == << sdl_joysticks, joystick_map >>

VARIABLES
    android_build,            \* whether __ANDROID__ is defined
    app_event_callbacks,      \* app_event_callbacks_, in registration order
    minimized,                \* minimized_
    minimized_frame,          \* minimized_frame_
    frames,                   \* frames_
    relative_mouse_mode_,     \* the mode saved when the app goes to background
    sdl_relative_mouse_mode,  \* SDL_GetRelativeMouseMode()
    pc_app,                   \* where HandleAppEvents stands: "idle", "callbacks"
    app_event,                \* the event HandleAppEvents was called with
    callback_it,              \* the iterator of the loop over the callbacks
    callback_log,             \* the calls made by the current or last HandleAppEvents
    app_return                \* the last event filtered and the value returned for it

app_vars ==
    << android_build, app_event_callbacks, minimized, minimized_frame, frames,
       relative_mouse_mode_, sdl_relative_mouse_mode, pc_app, app_event,
       callback_it, callback_log, app_return >>

\* Head mounted display (#if FPLBASE_ANDROID_VR)
VARIABLES
    g_head_mounted_display_input,  \* "nullptr" or "this"
    g_device_orientation,          \* the rotation last notified, cached
    head_mounted_display_input_,   \* the HeadMountedDisplayInput of the InputSystem
    ndebug,                        \* build: assert() is compiled out
    pc_hmd,                        \* the frame thread and the callback thread
    hmd_obs                        \* observation: calls, notifications, failures

hmd_vars ==
    << g_head_mounted_display_input, g_device_orientation,
       head_mounted_display_input_, ndebug, pc_hmd, hmd_obs >>

gamepad_vars ==
    << gamepad_map, unhandled_java_input_events, android_event_mutex, pc_recv,
       recv_ev, pc_handle, burst, processed, started, dropped, overlap,
       unlocked_access, edge_down, edge_up >>

vars == << input_vars, joystick_vars, gamepad_vars, app_vars, hmd_vars >>

Min(a, b) == IF a < b THEN a ELSE b

\* ------------------------------------------------------------------------
\* Button (fplbase/input.h, input.cpp), from the design document:
\* Update sets is_down and raises the edge flag of a change;
\* AdvanceFrame clears both edge flags.
\* ------------------------------------------------------------------------

NewButton == [is_down |-> FALSE, went_down |-> FALSE, went_up |-> FALSE]

\* Update with the down edge set on every update(true)
Button_Update_EdgeOnEvery(b, down) ==
    [is_down |-> down,
     went_down |-> b.went_down \/ down,
     went_up |-> b.went_up \/ (b.is_down /\ ~down)]

Button_Update(b, down) ==
    [is_down   |-> down,
     went_down |-> b.went_down \/ (~b.is_down /\ down),
     went_up   |-> b.went_up \/ (b.is_down /\ ~down)]

Button_AdvanceFrame(b) ==
    [is_down |-> b.is_down, went_down |-> FALSE, went_up |-> FALSE]

\* ------------------------------------------------------------------------
\* Pointers (fplbase/input.h, input.cpp), from the design document
\* ------------------------------------------------------------------------

\* pointers_ has kMaxSimultanuousPointers slots, of which two are kept
PointerIndices == {0, 1}

\* the touch device reports as many distinct finger ids as there are slots
FingerIds == {0, 1}

\* SDL_BUTTON_LEFT and SDL_BUTTON_MIDDLE
MouseButtons == {1, 2}

LeastOf(S) == CHOOSE i \in S : \A j \in S : i <= j

\* InputPointer(): no contact, position (-1, -1) and no motion
NewPointer == [id |-> 0, mousepos |-> -1, mousedelta |-> 0, used |-> FALSE]

\* size_t InputSystem::FindPointer(FingerId id): the slot in use for the id,
\* else the lowest free slot, which is given the id and marked used, else 0.
FindPointer(ptrs, id) ==
    LET found == { i \in PointerIndices : ptrs[i].used /\ ptrs[i].id = id }
        free  == { i \in PointerIndices : ~ptrs[i].used }
    IN  IF found # {} THEN [pointers |-> ptrs, index |-> LeastOf(found)]
        ELSE IF free # {}
        THEN [pointers |-> [ptrs EXCEPT ![LeastOf(free)] =
                               [@ EXCEPT !.id = id, !.used = TRUE]],
              index |-> LeastOf(free)]
        ELSE [pointers |-> ptrs, index |-> 0]

\* void InputSystem::RemovePointer(size_t i): the slot is free again
RemovePointer(ptrs, i) == [ptrs EXCEPT ![i].used = FALSE]

\* ------------------------------------------------------------------------
\* InputSystem::UpdateEvents: the handlers of the switch, as functions of
\* the input state s = [button_map, pointers, touch_device, exit_requested,
\* window_size, text_input_events] and the event
\* ------------------------------------------------------------------------

\* a platform event (SDL_Event); the fields its kind does not carry are 0
BlankEvent(type) ==
    [type |-> type, which |-> 0, pressed |-> FALSE, x |-> 0, rel |-> 0,
     windowID |-> 0, index |-> 0, value |-> 0]

QuitEvent == BlankEvent("SDL_QUIT")

KeyEvent(sym, pressed) ==
    [BlankEvent(IF pressed THEN "SDL_KEYDOWN" ELSE "SDL_KEYUP")
        EXCEPT !.which = sym, !.pressed = pressed]

\* tfinger: fingerId, x in units of the window's width, dx likewise
FingerEvent(type, fingerId, x, dx) ==
    [BlankEvent(type) EXCEPT !.which = fingerId, !.x = x, !.rel = dx]

MouseButtonEvent(button, pressed, windowID, x) ==
    [BlankEvent(IF pressed THEN "SDL_MOUSEBUTTONDOWN" ELSE "SDL_MOUSEBUTTONUP")
        EXCEPT !.which = button, !.pressed = pressed, !.windowID = windowID, !.x = x]

MouseMotionEvent(x, xrel) ==
    [BlankEvent("SDL_MOUSEMOTION") EXCEPT !.x = x, !.rel = xrel]

JoyDeviceEvent(type, which) == [BlankEvent(type) EXCEPT !.which = which]

JoyAxisEvent(which, axis, value) ==
    [BlankEvent("SDL_JOYAXISMOTION") EXCEPT !.which = which, !.index = axis, !.value = value]

JoyButtonEvent(which, button, pressed) ==
    [BlankEvent(IF pressed THEN "SDL_JOYBUTTONDOWN" ELSE "SDL_JOYBUTTONUP")
        EXCEPT !.which = which, !.index = button, !.pressed = pressed]

JoyHatEvent(which, hat, value) ==
    [BlankEvent("SDL_JOYHATMOTION") EXCEPT !.which = which, !.index = hat, !.value = value]

\* wheel: x
MouseWheelEvent(x) == [BlankEvent("SDL_MOUSEWHEEL") EXCEPT !.x = x]

\* window: event, data1
SDL_WINDOWEVENT_RESIZED == 5
SDL_WINDOWEVENT_MOVED == SDL_WINDOWEVENT_RESIZED - 1
WindowEvent(event, data1) ==
    [BlankEvent("SDL_WINDOWEVENT") EXCEPT !.index = event, !.value = data1]

\* edit.text and text.text, by a number that stands for the string
TextEditingEvent(text) == [BlankEvent("SDL_TEXTEDITING") EXCEPT !.value = text]
TextInputEvent(text) == [BlankEvent("SDL_TEXTINPUT") EXCEPT !.value = text]

MultiGestureEvent == BlankEvent("SDL_MULTIGESTURE")

\* an event of a type that the switch of UpdateEvents does not list
ClipboardUpdateEvent == BlankEvent("SDL_CLIPBOARDUPDATE")

\* the case labels of the switch of UpdateEvents
HandledEventTypes ==
    {"SDL_QUIT", "SDL_KEYDOWN", "SDL_KEYUP", "SDL_FINGERDOWN", "SDL_FINGERUP",
     "SDL_FINGERMOTION", "SDL_MOUSEBUTTONDOWN", "SDL_MOUSEBUTTONUP",
     "SDL_MOUSEMOTION", "SDL_MOUSEWHEEL", "SDL_WINDOWEVENT", "SDL_JOYAXISMOTION",
     "SDL_JOYBUTTONDOWN", "SDL_JOYBUTTONUP", "SDL_JOYHATMOTION",
     "SDL_JOYDEVICEADDED", "SDL_JOYDEVICEREMOVED", "SDL_TEXTEDITING",
     "SDL_TEXTINPUT", "SDL_MULTIGESTURE"}

\* key codes of the keyboard and of the pointer buttons in button_map_
KeySym(k) == << "SDLK", k >>
\* Button &GetPointerButton(pointer): GetButton(pointer + K_POINTER1)
PointerCode(i) == << "K_POINTER1", i >>

ButtonCodes ==
    { KeySym(1) }
    \cup { PointerCode(i) : i \in PointerIndices }
    \cup { PointerCode(b - 1) : b \in MouseButtons }

\* GetButton(code).Update(down); button_map_ creates a Button on first use
UpdateButton(bm, code, down) == [bm EXCEPT ![code] = Button_Update(@, down)]

\* case SDL_QUIT
\* the handler of a quit event with exit_requested_ toggled
OnQuit_Toggle(s, ev) == [s EXCEPT !.exit_requested = ~@]

OnQuit(s, ev) == [s EXCEPT !.exit_requested = TRUE]

\* case SDL_KEYDOWN, SDL_KEYUP
OnKey(s, ev, recording) ==
    [s EXCEPT
       !.button_map = UpdateButton(@, KeySym(ev.which), ev.pressed),
       !.text_input_events =
           IF recording
           THEN Append(@, [type |-> "kTextInputEventTypeKey", state |-> ev.pressed,
                           symbol |-> ev.which])
           ELSE @]

\* UpdateDragPosition without the search of SDL's fingers for the event's id
UpdateDragPosition_Unlisted(ptrs, ev, event_type, wsize, fingers) ==
    LET f == FindPointer(ptrs, ev.which)
        j == f.index
        p1 == IF event_type = "SDL_FINGERUP"
              THEN RemovePointer(f.pointers, j) ELSE f.pointers
    IN  [pointers |-> [p1 EXCEPT ![j].mousepos = ev.x * wsize,
                                 ![j].mousedelta = @ + ev.rel * wsize],
         index |-> j]

\* size_t InputSystem::UpdateDragPosition(event, event_type, window_size):
\* fingers is what SDL_GetTouchFinger reports at the time of the call.
UpdateDragPosition(ptrs, ev, event_type, wsize, fingers) ==
    IF ev.which \in fingers
    THEN LET f == FindPointer(ptrs, ev.which)
             j == f.index
             p1 == IF event_type = "SDL_FINGERUP"
                   THEN RemovePointer(f.pointers, j) ELSE f.pointers
         IN  [pointers |-> [p1 EXCEPT ![j].mousepos = ev.x * wsize,
                                      ![j].mousedelta = @ + ev.rel * wsize],
              index |-> j]
    ELSE [pointers |-> ptrs, index |-> 0]

\* case SDL_FINGERDOWN
OnFingerDown(s, ev, mobile, fingers) ==
    IF mobile
    THEN LET d == UpdateDragPosition(s.pointers, ev, "SDL_FINGERDOWN",
                                     s.window_size, fingers)
         IN  [s EXCEPT !.touch_device = TRUE,
                       !.pointers = d.pointers,
                       !.button_map = UpdateButton(@, PointerCode(d.index), TRUE)]
    ELSE s

\* case SDL_FINGERUP without the call of RemovePointer
OnFingerUp_KeepSlot(s, ev, mobile) ==
    IF mobile
    THEN LET f == FindPointer(s.pointers, ev.which)
         IN  [s EXCEPT !.touch_device = TRUE,
                       !.pointers = f.pointers,
                       !.button_map = UpdateButton(@, PointerCode(f.index), FALSE)]
    ELSE s

\* case SDL_FINGERUP
OnFingerUp(s, ev, mobile) ==
    IF mobile
    THEN LET f == FindPointer(s.pointers, ev.which)
         IN  [s EXCEPT !.touch_device = TRUE,
                       !.pointers = RemovePointer(f.pointers, f.index),
                       !.button_map = UpdateButton(@, PointerCode(f.index), FALSE)]
    ELSE s

\* case SDL_FINGERMOTION
OnFingerMotion(s, ev, mobile, fingers) ==
    IF mobile
    THEN [s EXCEPT !.touch_device = TRUE,
                   !.pointers = UpdateDragPosition(@, ev, "SDL_FINGERMOTION",
                                                   s.window_size, fingers).pointers]
    ELSE s

\* case SDL_MOUSEBUTTONDOWN, SDL_MOUSEBUTTONUP
\* the handler of a mouse button with pointers_[1].used = true in place of
\* pointers_[0].used = true
OnMouseButton_MarksSlotOne(s, ev) ==
    [s EXCEPT !.touch_device = FALSE,
              !.button_map = UpdateButton(@, PointerCode(ev.which - 1), ev.pressed),
              !.pointers = [i \in PointerIndices |->
                  IF i = 0 /\ ev.windowID # 0 THEN [@[i] EXCEPT !.mousepos = ev.x]
                  ELSE IF i = 1 THEN [@[i] EXCEPT !.used = TRUE]
                  ELSE @[i]]]

OnMouseButton(s, ev) ==
    LET p1 == IF ev.windowID # 0
              THEN [s.pointers EXCEPT ![0].mousepos = ev.x] ELSE s.pointers
    IN  [s EXCEPT !.touch_device = FALSE,
                  !.button_map = UpdateButton(@, PointerCode(ev.which - 1), ev.pressed),
                  !.pointers = [p1 EXCEPT ![0].used = TRUE]]

\* case SDL_MOUSEMOTION
\* the handler of a mouse motion with pointers_[1] in place of pointers_[0]
OnMouseMotion_SlotOne(s, ev, mobile) ==
    IF mobile THEN s
    ELSE [s EXCEPT !.touch_device = FALSE,
                   !.pointers[1].mousedelta = @ + ev.rel,
                   !.pointers[1].mousepos = ev.x]

OnMouseMotion(s, ev, mobile) ==
    IF ~mobile
    THEN [s EXCEPT !.touch_device = FALSE,
                   !.pointers = [@ EXCEPT ![0].mousedelta = @ + ev.rel,
                                          ![0].mousepos = ev.x]]
    ELSE s

\* case SDL_MOUSEWHEEL
OnMouseWheel(s, ev) ==
    [s EXCEPT !.touch_device = FALSE, !.mousewheel_delta = @ + ev.x]

\* case SDL_WINDOWEVENT
OnWindowEvent(s, ev) ==
    IF ev.index = SDL_WINDOWEVENT_RESIZED THEN [s EXCEPT !.window_size = ev.value]
    ELSE s

\* case SDL_TEXTEDITING
OnTextEditing(s, ev, recording) ==
    IF recording
    THEN [s EXCEPT !.text_input_events =
             Append(@, [type |-> "kTextInputEventTypeEdit", state |-> FALSE,
                        symbol |-> ev.value])]
    ELSE s

\* case SDL_TEXTINPUT
OnTextInput(s, ev, recording) ==
    IF recording
    THEN [s EXCEPT !.text_input_events =
             Append(@, [type |-> "kTextInputEventTypeText", state |-> FALSE,
                        symbol |-> ev.value])]
    ELSE s

\* case SDL_MULTIGESTURE
OnMultiGesture(s, ev) == s

\* default, with control falling into the case of SDL_QUIT
OnDefault_RequestsExit(s, ev) == [s EXCEPT !.exit_requested = TRUE]

\* default: the two LogInfo calls
OnDefault(s, ev) == s

\* ------------------------------------------------------------------------
\* Joysticks
\* ------------------------------------------------------------------------

JoystickIds == {0, 1}
\* indices of the buttons, axes and hats of a joystick
JoystickControls == {0}

\* an axis value raw / kJoystickAxisRange, kept as numerator and denominator
AxisValue(raw) == << raw, kJoystickAxisRange >>

\* Joystick(): no native handle; the buttons, axes and hats (created on
\* first use, fplbase/input.h) read as released, 0 and (0, 0)
NewJoystick ==
    [joystick_data |-> "nullptr",
     buttons |-> [i \in JoystickControls |-> NewButton],
     axes    |-> [i \in JoystickControls |-> AxisValue(0)],
     hats    |-> [i \in JoystickControls |-> << 0, 0 >>]]

\* the values of SDL_HAT_* and the vectors ConvertHatToVector gives them
HatVectors ==
    << [hat |-> 9,  vec |-> << -1, -1 >>],   \* SDL_HAT_LEFTUP
       [hat |-> 1,  vec |-> << 0, -1 >>],    \* SDL_HAT_UP
       [hat |-> 3,  vec |-> << 1, -1 >>],    \* SDL_HAT_RIGHTUP
       [hat |-> 8,  vec |-> << -1, 0 >>],    \* SDL_HAT_LEFT
       [hat |-> 0,  vec |-> << 0, 0 >>],     \* SDL_HAT_CENTERED
       [hat |-> 2,  vec |-> << 1, 0 >>],     \* SDL_HAT_RIGHT
       [hat |-> 12, vec |-> << -1, 1 >>],    \* SDL_HAT_LEFTDOWN
       [hat |-> 4,  vec |-> << 0, 1 >>],     \* SDL_HAT_DOWN
       [hat |-> 6,  vec |-> << 1, 1 >>] >>   \* SDL_HAT_RIGHTDOWN

\* the switch with the y of every vector negated (up positive)
ConvertHatToVector_UpPositive(hat_enum) ==
    LET cases == { i \in 1..Len(HatVectors) : HatVectors[i].hat = hat_enum }
    IN  IF cases = {} THEN << 0, 0 >>
        ELSE << HatVectors[LeastOf(cases)].vec[1],
                -(HatVectors[LeastOf(cases)].vec[2]) >>

\* vec2 InputSystem::ConvertHatToVector(uint32_t hat_enum)
ConvertHatToVector(hat_enum) ==
    LET cases == { i \in 1..Len(HatVectors) : HatVectors[i].hat = hat_enum }
    IN  IF cases = {} THEN << 0, 0 >> ELSE HatVectors[LeastOf(cases)].vec

\* CloseOpenJoysticks with a loop that closes the first record only
CloseOpenJoysticks_FirstOnly(jm) ==
    [id \in DOMAIN jm |->
        IF id = LeastOf(DOMAIN jm)
        THEN [jm[id] EXCEPT !.joystick_data = "nullptr"] ELSE jm[id]]

\* void InputSystem::CloseOpenJoysticks()
CloseOpenJoysticks(jm) ==
    [id \in DOMAIN jm |-> [jm[id] EXCEPT !.joystick_data = "nullptr"]]

\* the loop body with joystick_map_[joystick_id] = Joystick() done every time
OpenJoystick_Always(jm, joystick_id) ==
    [id \in (DOMAIN jm) \cup {joystick_id} |->
        IF id = joystick_id
        THEN [NewJoystick EXCEPT !.joystick_data = "SDL_Joystick"]
        ELSE jm[id]]

\* the body of the loop of OpenConnectedJoysticks for the device with
\* instance id joystick_id
OpenJoystick(jm, joystick_id) ==
    LET with == IF joystick_id \in DOMAIN jm THEN jm
                ELSE [id \in (DOMAIN jm) \cup {joystick_id} |->
                        IF id = joystick_id THEN NewJoystick ELSE jm[id]]
    IN  [with EXCEPT ![joystick_id].joystick_data = "SDL_Joystick"]

\* void InputSystem::OpenConnectedJoysticks(): devices is SDL's list of
\* connected joysticks, devices[i + 1] the instance id of device index i
RECURSIVE OpenConnectedJoysticks(_, _)
OpenConnectedJoysticks(jm, devices) ==
    IF devices = << >> THEN jm
    ELSE OpenConnectedJoysticks(OpenJoystick(jm, Head(devices)), Tail(devices))

\* void InputSystem::UpdateConnectedJoystickList() (input.cpp): the handles
\* are closed and the connected devices opened again
UpdateConnectedJoystickList(jm, devices) ==
    OpenConnectedJoysticks(CloseOpenJoysticks(jm), devices)

\* Joystick &InputSystem::GetJoystick(id) (input.cpp): the record of the id,
\* created when an event names an id without one
GetJoystick(jm, id) ==
    IF id \in DOMAIN jm THEN jm
    ELSE [j \in (DOMAIN jm) \cup {id} |-> IF j = id THEN NewJoystick ELSE jm[j]]

\* void InputSystem::HandleJoystickEvent(Event event)
HandleJoystickEvent(jm, ev, devices) ==
    CASE ev.type \in {"SDL_JOYDEVICEADDED", "SDL_JOYDEVICEREMOVED"} ->
           UpdateConnectedJoystickList(jm, devices)
      [] ev.type = "SDL_JOYAXISMOTION" ->
           [GetJoystick(jm, ev.which) EXCEPT
               ![ev.which].axes[ev.index] = AxisValue(ev.value)]
      [] ev.type \in {"SDL_JOYBUTTONDOWN", "SDL_JOYBUTTONUP"} ->
           [GetJoystick(jm, ev.which) EXCEPT
               ![ev.which].buttons[ev.index] = Button_Update(@, ev.pressed)]
      [] ev.type = "SDL_JOYHATMOTION" ->
           [GetJoystick(jm, ev.which) EXCEPT
               ![ev.which].hats[ev.index] = ConvertHatToVector(ev.value)]
      [] OTHER -> jm

\* ------------------------------------------------------------------------
\* Android gamepad path (#if ANDROID_GAMEPAD)
\* ------------------------------------------------------------------------

\* enum Gamepad::GamepadInputButton in declaration order; kInvalid is -1.
ControlOrder ==
    << "kUp", "kDown", "kLeft", "kRight", "kButtonA", "kButtonB", "kButtonC",
       "kButtonX", "kButtonY", "kButtonZ", "kButtonL1", "kButtonR1",
       "kButtonL2", "kButtonR2", "kButtonThumbL", "kButtonThumbR",
       "kButtonBack", "kButtonStart", "kButtonSelect", "kButtonMode" >>

GamepadInputButton == { ControlOrder[i] : i \in 1..kControlCount }

\* static const JavaToGamepadMapping kJavaToGamepadMap[]
kJavaToGamepadMap ==
    << <<"AKEYCODE_DPAD_UP", "kUp">>,
       <<"AKEYCODE_DPAD_DOWN", "kDown">>,
       <<"AKEYCODE_DPAD_LEFT", "kLeft">>,
       <<"AKEYCODE_DPAD_RIGHT", "kRight">>,
       <<"AKEYCODE_DPAD_CENTER", "kButtonA">>,
       <<"AKEYCODE_BUTTON_A", "kButtonA">>,
       <<"AKEYCODE_BUTTON_B", "kButtonB">>,
       <<"AKEYCODE_BUTTON_C", "kButtonC">>,
       <<"AKEYCODE_BUTTON_X", "kButtonX">>,
       <<"AKEYCODE_BUTTON_Y", "kButtonY">>,
       <<"AKEYCODE_BUTTON_Z", "kButtonZ">>,
       <<"AKEYCODE_BUTTON_L1", "kButtonL1">>,
       <<"AKEYCODE_BUTTON_R1", "kButtonR1">>,
       <<"AKEYCODE_BUTTON_L2", "kButtonL2">>,
       <<"AKEYCODE_BUTTON_R2", "kButtonR2">>,
       <<"AKEYCODE_BUTTON_THUMBL", "kButtonThumbL">>,
       <<"AKEYCODE_BUTTON_THUMBR", "kButtonThumbR">>,
       <<"AKEYCODE_BACK", "kButtonBack">>,
       <<"AKEYCODE_BUTTON_START", "kButtonStart">>,
       <<"AKEYCODE_BUTTON_SELECT", "kButtonSelect">>,
       <<"AKEYCODE_MENU", "kButtonSelect">>,
       <<"AKEYCODE_BUTTON_MODE", "kButtonMode">> >>

\* The scan visits the first kControlCount entries of the table.
GetGamepadCodeFromJavaKeyCode(java_keycode) ==
    LET hits == { i \in 1..kControlCount :
                    /\ i <= Len(kJavaToGamepadMap)
                    /\ kJavaToGamepadMap[i][1] = java_keycode }
    IN  IF hits = {} THEN "kInvalid"
        ELSE kJavaToGamepadMap[CHOOSE i \in hits : \A j \in hits : i <= j][2]

NewGamepad(id) ==
    [controller_id |-> id,
     button_list   |-> [c \in GamepadInputButton |-> NewButton]]

\* Gamepad &InputSystem::GetGamepad(id): the map after the lookup, which
\* creates the record of an id seen for the first time.
GetGamepad(gm, id) ==
    IF id \in DOMAIN gm THEN gm
    ELSE [g \in (DOMAIN gm) \cup {id} |-> IF g = id THEN NewGamepad(id) ELSE gm[g]]

\* gamepad.GetButton(index).Update(down) on the gamepad of device id
GamepadButtonUpdate(gm, id, index, down) ==
    [gm EXCEPT ![id].button_list[index] = Button_Update(@, down)]

\* the iteration with the comparisons of the motion case made inclusive
ProcessGamepadEvent_Inclusive(gm0, ev) ==
    LET gm == GetGamepad(gm0, ev.device_id)
        button_index == GetGamepadCodeFromJavaKeyCode(ev.control_code)
    IN  CASE ev.event_code \in {"AKEY_EVENT_ACTION_DOWN", "AKEY_EVENT_ACTION_UP"} ->
               IF button_index # "kInvalid"
               THEN GamepadButtonUpdate(gm, ev.device_id, button_index,
                                        ev.event_code = "AKEY_EVENT_ACTION_DOWN")
               ELSE gm
          [] ev.event_code = "AMOTION_EVENT_ACTION_MOVE" ->
               LET g1 == GamepadButtonUpdate(gm, ev.device_id, "kLeft",
                                             ev.x <= -kGamepadHatThreshold)
                   g2 == GamepadButtonUpdate(g1, ev.device_id, "kRight",
                                             ev.x >= kGamepadHatThreshold)
                   g3 == GamepadButtonUpdate(g2, ev.device_id, "kUp",
                                             ev.y <= -kGamepadHatThreshold)
               IN  GamepadButtonUpdate(g3, ev.device_id, "kDown",
                                       ev.y >= kGamepadHatThreshold)
          [] OTHER -> gm

\* One iteration of the loop of HandleGamepadEvents, after front()/pop():
\* the gamepad map after event ev is processed.
ProcessGamepadEvent(gm0, ev) ==
    LET gm == GetGamepad(gm0, ev.device_id)
        button_index == GetGamepadCodeFromJavaKeyCode(ev.control_code)
    IN  CASE ev.event_code = "AKEY_EVENT_ACTION_DOWN" ->
               IF button_index # "kInvalid"
               THEN GamepadButtonUpdate(gm, ev.device_id, button_index, TRUE)
               ELSE gm
          [] ev.event_code = "AKEY_EVENT_ACTION_UP" ->
               IF button_index # "kInvalid"
               THEN GamepadButtonUpdate(gm, ev.device_id, button_index, FALSE)
               ELSE gm
          [] ev.event_code = "AMOTION_EVENT_ACTION_MOVE" ->
               LET left  == ev.x < -kGamepadHatThreshold
                   right == ev.x > kGamepadHatThreshold
                   up    == ev.y < -kGamepadHatThreshold
                   down  == ev.y > kGamepadHatThreshold
                   g1 == GamepadButtonUpdate(gm, ev.device_id, "kLeft", left)
                   g2 == GamepadButtonUpdate(g1, ev.device_id, "kRight", right)
                   g3 == GamepadButtonUpdate(g2, ev.device_id, "kUp", up)
               IN  GamepadButtonUpdate(g3, ev.device_id, "kDown", down)
          [] OTHER -> gm

\* Gamepad::AdvanceFrame with a loop that starts at index 1
Gamepad_AdvanceFrame_FromOne(gamepad) ==
    [gamepad EXCEPT !.button_list =
        [c \in DOMAIN gamepad.button_list |->
            IF c = ControlOrder[1] THEN gamepad.button_list[c]
            ELSE Button_AdvanceFrame(gamepad.button_list[c])]]

\* void Gamepad::AdvanceFrame(): every button of button_list_ is advanced.
Gamepad_AdvanceFrame(gamepad) ==
    [gamepad EXCEPT !.button_list =
        [c \in DOMAIN gamepad.button_list |-> Button_AdvanceFrame(gamepad.button_list[c])]]

\* ---- threads, events and the queue -------------------------------------

Producers == 1..NumProducers
NoThread == 0
FrameThread == -1

GamepadDeviceIds == {1}

\* the threads that deliver events: every producer when they flood the
\* queue, the one platform callback thread otherwise
CallbackThreads == IF burst THEN Producers ELSE {1}

AndroidInputEvent(device_id, event_code, control_code, x, y) ==
    [device_id |-> device_id, event_code |-> event_code,
     control_code |-> control_code, x |-> x, y |-> y]

\* events a producer may deliver when contents are unconstrained
GamepadEvents ==
    { AndroidInputEvent(d, e, k, 0, 0) :
        d \in GamepadDeviceIds,
        e \in {"AKEY_EVENT_ACTION_DOWN", "AKEY_EVENT_ACTION_UP"},
        k \in {"AKEYCODE_DPAD_UP"} }
    \cup { AndroidInputEvent(d, "AKEY_EVENT_ACTION_DOWN", "AKEYCODE_SPACE", 0, 0) :
        d \in GamepadDeviceIds }
    \cup { AndroidInputEvent(d, "AMOTION_EVENT_ACTION_MOVE", "none", xy[1], xy[2]) :
        d \in GamepadDeviceIds, xy \in { <<0, 0>> } }

\* the key codes of the table of GetGamepadCodeFromJavaKeyCode, in the
\* table's order, and a key code that is not in the table
JavaKeyCodes ==
    { kJavaToGamepadMap[i][1] : i \in 1..Len(kJavaToGamepadMap) }
    \cup {"AKEYCODE_SPACE"}

\* stick and hat coordinates, in halves: -1, -0.5, 0, 0.5, 1
MotionCoordinates == {-2, -1, 0, 1, 2}

\* the events of a gamepad used one control at a time: a key goes down only
\* while no button of gamepad map gm is down; key releases and motions come
\* at any time
GamepadInputEvents(gm) ==
    { AndroidInputEvent(d, "AKEY_EVENT_ACTION_DOWN", k, 0, 0) :
        d \in { g \in GamepadDeviceIds :
                  g \in DOMAIN gm =>
                     \A c \in GamepadInputButton : ~gm[g].button_list[c].is_down },
        k \in JavaKeyCodes }
    \cup { AndroidInputEvent(d, "AKEY_EVENT_ACTION_UP", k, 0, 0) :
        d \in GamepadDeviceIds, k \in JavaKeyCodes }
    \cup { AndroidInputEvent(d, "AMOTION_EVENT_ACTION_MOVE", "none", x, y) :
        d \in GamepadDeviceIds, x \in MotionCoordinates, y \in MotionCoordinates }

\* the event every call delivers when producers flood the queue
FloodEvent ==
    AndroidInputEvent(1, "AKEY_EVENT_ACTION_DOWN", "AKEYCODE_BUTTON_A", 0, 0)

\* unhandled_java_input_events_.size() as a thread that does not hold the
\* mutex can read it: the size itself, or the size a push or pop in progress
\* in the thread that holds the mutex is about to leave.
ObservableSizes ==
    {Len(unhandled_java_input_events)}
    \cup (IF android_event_mutex \in Producers
          THEN {Len(unhandled_java_input_events) + 1} ELSE {})
    \cup (IF android_event_mutex = FrameThread /\ unhandled_java_input_events # <<>>
          THEN {Len(unhandled_java_input_events) - 1} ELSE {})

GamepadButtonDown(gm, g, c) ==
    g \in DOMAIN gm /\ gm[g].button_list[c].is_down

\* the edges of is_down between two gamepad maps, added to the noted ones
NoteDown(old, new, noted) ==
    [g \in GamepadDeviceIds |-> [c \in GamepadInputButton |->
        noted[g][c] \/ (~GamepadButtonDown(old, g, c) /\ GamepadButtonDown(new, g, c))]]

NoteUp(old, new, noted) ==
    [g \in GamepadDeviceIds |-> [c \in GamepadInputButton |->
        noted[g][c] \/ (GamepadButtonDown(old, g, c) /\ ~GamepadButtonDown(new, g, c))]]

NoEdges == [g \in GamepadDeviceIds |-> [c \in GamepadInputButton |-> FALSE]]

InitGamepadVars ==
    /\ gamepad_map = << >>
    /\ unhandled_java_input_events = << >>
    /\ android_event_mutex = NoThread
    /\ pc_recv = [p \in Producers |-> "idle"]
    /\ recv_ev = [p \in Producers |-> FloodEvent]
    /\ pc_handle = "idle"
    /\ processed = << >>
    /\ started = 0
    /\ dropped = 0
    /\ overlap = FALSE
    /\ unlocked_access = FALSE
    /\ edge_down = NoEdges
    /\ edge_up = NoEdges

\* the events a call of ReceiveGamepadEvent may carry
ProducedEvents ==
    IF burst THEN {FloodEvent}
    ELSE IF event_family = "gamepad_input" THEN GamepadInputEvents(gamepad_map)
    ELSE GamepadEvents

\* the calls of ReceiveGamepadEvent between two drains: one at a time when
\* every control is exercised
CallsPerFrame == IF event_family = "gamepad_input" THEN 1 ELSE MaxFrameCalls

\* ReceiveGamepadEvent, the test of the queue's size, made before the mutex
\* is taken; a call that finds the queue full returns at once.
ReceiveCheck(p) ==
    /\ p \in CallbackThreads
    /\ pc_recv[p] = "idle"
    /\ dropped < MaxDropped
    /\ burst \/ started < CallsPerFrame
    /\ event_family = "gamepad_input" =>
          unhandled_java_input_events = << >> /\ pc_handle = "idle"
    /\ \E ev \in ProducedEvents :
       \E size \in ObservableSizes :
          IF size < kMaxAndroidEventsPerFrame
          THEN /\ pc_recv' = [pc_recv EXCEPT ![p] = "lock"]
               /\ recv_ev' = [recv_ev EXCEPT ![p] = ev]
               /\ dropped' = dropped
          ELSE /\ dropped' = dropped + 1
               /\ UNCHANGED << pc_recv, recv_ev >>
    /\ started' = started + 1
    /\ overlap' = (overlap \/ pc_handle # "idle")
    /\ unlocked_access' = TRUE
    /\ UNCHANGED << input_vars, joystick_vars, app_vars, hmd_vars, gamepad_map, unhandled_java_input_events, android_event_mutex,
                    pc_handle, burst, processed, edge_down, edge_up >>

\* pthread_mutex_lock(&android_event_mutex) in ReceiveGamepadEvent
ReceiveLock(p) ==
    /\ pc_recv[p] = "lock"
    /\ android_event_mutex = NoThread
    /\ android_event_mutex' = p
    /\ pc_recv' = [pc_recv EXCEPT ![p] = "push"]
    /\ UNCHANGED << input_vars, joystick_vars, app_vars, hmd_vars, gamepad_map, unhandled_java_input_events, recv_ev, pc_handle,
                    burst, processed, started, dropped, overlap, unlocked_access,
                    edge_down, edge_up >>

\* the queue after the push of ReceiveGamepadEvent; the serial is the
\* position of the push among those since the last drain
PushEvent(queue, ev) ==
    Append(queue, [event |-> ev, serial |-> Len(queue) + 1])

\* unhandled_java_input_events_.push(...); pthread_mutex_unlock(...)
ReceivePush(p) ==
    /\ pc_recv[p] = "push"
    /\ android_event_mutex = p
    /\ unhandled_java_input_events' = PushEvent(unhandled_java_input_events, recv_ev[p])
    /\ android_event_mutex' = NoThread
    /\ pc_recv' = [pc_recv EXCEPT ![p] = "idle"]
    /\ recv_ev' = [recv_ev EXCEPT ![p] = FloodEvent]
    /\ UNCHANGED << input_vars, joystick_vars, app_vars, hmd_vars, gamepad_map, pc_handle, burst, processed, started,
                    dropped, overlap, unlocked_access, edge_down, edge_up >>

\* InputSystem::AdvanceFrame (input.cpp) calls HandleGamepadEvents after it
\* has advanced the gamepads: no button of gm holds an edge flag
FrameAdvanced(gm) ==
    \A g \in DOMAIN gm : \A c \in GamepadInputButton :
       ~gm[g].button_list[c].went_down /\ ~gm[g].button_list[c].went_up

\* pthread_mutex_lock(&android_event_mutex) in HandleGamepadEvents
HandleLock ==
    /\ pc_handle = "idle"
    /\ event_family = "gamepad_input" => FrameAdvanced(gamepad_map)
    /\ android_event_mutex = NoThread
    /\ android_event_mutex' = FrameThread
    /\ pc_handle' = "loop"
    /\ processed' = << >>
    /\ overlap' = (overlap \/ \E p \in Producers : pc_recv[p] # "idle")
    /\ UNCHANGED << input_vars, joystick_vars, app_vars, hmd_vars, gamepad_map, unhandled_java_input_events, pc_recv, recv_ev,
                    burst, started, dropped, unlocked_access, edge_down, edge_up >>

\* event = front(); pop(): the entry the loop takes and the queue it leaves
QueueFront(queue) == Head(queue)
QueuePop(queue) == Tail(queue)

\* one iteration of while (unhandled_java_input_events_.size() > 0)
HandleLoop ==
    /\ pc_handle = "loop"
    /\ unhandled_java_input_events # << >>
    /\ LET entry == QueueFront(unhandled_java_input_events)
           gm == ProcessGamepadEvent(gamepad_map, entry.event)
       IN  /\ unhandled_java_input_events' = QueuePop(unhandled_java_input_events)
           /\ gamepad_map' = gm
           /\ processed' = Append(processed, entry.serial)
           /\ edge_down' = NoteDown(gamepad_map, gm, edge_down)
           /\ edge_up' = NoteUp(gamepad_map, gm, edge_up)
    /\ UNCHANGED << input_vars, joystick_vars, app_vars, hmd_vars, android_event_mutex, pc_recv, recv_ev, pc_handle, burst,
                    started, dropped, overlap, unlocked_access >>

\* the loop's exit and std::queue<AndroidInputEvent>().swap(...)
HandleClear ==
    /\ pc_handle = "loop"
    /\ unhandled_java_input_events = << >>
    /\ unhandled_java_input_events' = << >>
    /\ pc_handle' = "unlock"
    /\ UNCHANGED << input_vars, joystick_vars, app_vars, hmd_vars, gamepad_map, android_event_mutex, pc_recv, recv_ev, burst,
                    processed, started, dropped, overlap, unlocked_access,
                    edge_down, edge_up >>

\* pthread_mutex_unlock(&android_event_mutex) and the return
HandleUnlock ==
    /\ pc_handle = "unlock"
    /\ android_event_mutex' = NoThread
    /\ pc_handle' = "idle"
    /\ started' = 0
    /\ dropped' = 0
    /\ overlap' = (\E p \in Producers : pc_recv[p] # "idle")
    /\ UNCHANGED << input_vars, joystick_vars, app_vars, hmd_vars, gamepad_map, unhandled_java_input_events, pc_recv, recv_ev,
                    burst, processed, unlocked_access, edge_down, edge_up >>

\* InputSystem::AdvanceFrame (input.cpp) advances every gamepad of the map
\* before it handles the frame's gamepad events.
GamepadsAdvanceFrame ==
    /\ pc_handle = "idle"
    /\ gamepad_map' = [g \in DOMAIN gamepad_map |-> Gamepad_AdvanceFrame(gamepad_map[g])]
    /\ edge_down' = NoEdges
    /\ edge_up' = NoEdges
    /\ UNCHANGED << input_vars, joystick_vars, app_vars, hmd_vars, unhandled_java_input_events, android_event_mutex, pc_recv,
                    recv_ev, pc_handle, burst, processed, started, dropped,
                    overlap, unlocked_access >>

NextGamepad ==
    \/ \E p \in Producers : ReceiveCheck(p)
    \/ \E p \in Producers : ReceiveLock(p)
    \/ \E p \in Producers : ReceivePush(p)
    \/ HandleLock
    \/ HandleLoop
    \/ HandleClear
    \/ HandleUnlock
    \/ GamepadsAdvanceFrame

\* ------------------------------------------------------------------------
\* The dispatcher: UpdateEvents polls the platform queue until it is empty
\* ------------------------------------------------------------------------

InputState ==
    [button_map |-> button_map, pointers |-> pointers,
     touch_device |-> touch_device, exit_requested |-> exit_requested,
     window_size |-> window_size, text_input_events |-> text_input_events,
     mousewheel_delta |-> mousewheel_delta]

\* the stages of a tap: "down" once a contact began with no slot in use,
\* "tapped" once the same contact ended in the next event, and "reused" or
\* "not_reused" once the next event began a contact
NoTap == [stage |-> "none", id |-> 0]

\* the changes of is_down of the keys between two button maps, counted up to 2
KeyCodes == { KeySym(1) }

NoteChanges(old, new, counts) ==
    [c \in KeyCodes |->
        IF old[c].is_down # new[c].is_down THEN Min(counts[c] + 1, 2) ELSE counts[c]]

NoQuit == [quit |-> FALSE, behind |-> 0, served |-> FALSE]

\* no UpdateEvents call is in progress; the calls are observed where events of
\* every kind are delivered
NoCall == [queued |-> << >>, polled |-> << >>]
ObservedCall(call) == IF event_family = "mixed" THEN call ELSE NoCall

InitInputVars ==
    /\ platform_mobile \in BOOLEAN
    /\ sdl_queue = << >>
    /\ touch_fingers = {}
    /\ frame_motions = 0
    /\ pc_update = "idle"
    /\ button_map = [c \in ButtonCodes |-> NewButton]
    /\ pointers = [i \in PointerIndices |-> NewPointer]
    /\ touch_device = FALSE
    /\ exit_requested = FALSE
    /\ window_size = 2
    /\ record_text_input = FALSE
    /\ text_input_events = << >>
    /\ nchanges = [c \in KeyCodes |-> 0]
    /\ mouse_marked = FALSE
    /\ tap = NoTap
    /\ after_quit = NoQuit
    /\ mousewheel_delta = 0
    /\ update_call = NoCall

\* InputSystem::Initialize: UpdateConnectedJoystickList() on the joysticks
\* connected at start
InitJoystickVars ==
    /\ sdl_joysticks \in { << >>, << 0 >> }
    /\ joystick_map = UpdateConnectedJoystickList(<< >>, sdl_joysticks)

\* touch and mouse events are delivered one at a time, but for the end of a
\* contact, which may be queued behind an event not yet dispatched; events of
\* every kind are delivered between the calls of UpdateEvents, and one per
\* call while text input is recorded
QueueRoom(ev) ==
    CASE event_family \in {"pointer", "touch"} ->
           \/ sdl_queue = << >>
           \/ ev.type = "SDL_FINGERUP" /\ Len(sdl_queue) = 1
      [] event_family = "joystick_input" -> sdl_queue = << >>
      [] event_family = "mixed" ->
           /\ pc_update = "idle"
           /\ Len(sdl_queue) < MaxQueue
           /\ record_text_input => sdl_queue = << >> /\ text_input_events = << >>
      [] OTHER -> Len(sdl_queue) < MaxQueue

\* the fingers the touch device can report: one more than there are pointer
\* slots when touch events alone are delivered
ContactIds == IF event_family = "touch" THEN FingerIds \cup {2} ELSE FingerIds

\* the platform delivers event ev: SDL_PumpEvents appends it to the queue
Deliver(ev) ==
    /\ QueueRoom(ev)
    /\ sdl_queue' = Append(sdl_queue, ev)
    /\ UNCHANGED << platform_mobile, event_family, pc_update, button_map, pointers,
                    touch_device, exit_requested, window_size, record_text_input,
                    text_input_events, nchanges, mouse_marked, tap, after_quit,
                    mousewheel_delta, update_call, joystick_map,
                    gamepad_vars, hmd_vars, app_vars >>

PlatformKeyboard ==
    /\ event_family = "keyboard"
    /\ \E ev \in {QuitEvent} \cup { KeyEvent(1, p) : p \in BOOLEAN } : Deliver(ev)
    /\ UNCHANGED << touch_fingers, frame_motions, sdl_joysticks >>

\* a finger touches the screen: SDL adds it to the touch device's fingers
PlatformFingerDown ==
    /\ event_family \in {"pointer", "touch"}
    /\ \E id \in ContactIds \ touch_fingers :
          /\ touch_fingers' = touch_fingers \cup {id}
          /\ Deliver(FingerEvent("SDL_FINGERDOWN", id, 1, 0))
    /\ UNCHANGED << frame_motions, sdl_joysticks >>

\* a finger leaves the screen: SDL removes it from the touch device's fingers
PlatformFingerUp ==
    /\ event_family \in {"pointer", "touch"}
    /\ \E id \in touch_fingers :
          /\ touch_fingers' = touch_fingers \ {id}
          /\ Deliver(FingerEvent("SDL_FINGERUP", id, 1, 0))
    /\ UNCHANGED << frame_motions, sdl_joysticks >>

PlatformFingerMotion ==
    /\ event_family \in {"pointer", "touch"}
    /\ frame_motions < MaxFrameMotions
    /\ frame_motions' = frame_motions + 1
    /\ \E id \in touch_fingers : Deliver(FingerEvent("SDL_FINGERMOTION", id, 1, 1))
    /\ UNCHANGED << touch_fingers, sdl_joysticks >>

PlatformMouseButton ==
    /\ event_family = "pointer"
    /\ \E ev \in { MouseButtonEvent(b, p, 1, 1) : b \in MouseButtons, p \in BOOLEAN }
                   \cup { MouseButtonEvent(1, TRUE, 0, 0) } : Deliver(ev)
    /\ UNCHANGED << touch_fingers, frame_motions, sdl_joysticks >>

PlatformMouseMotion ==
    /\ event_family = "pointer"
    /\ frame_motions < MaxFrameMotions
    /\ frame_motions' = frame_motions + 1
    /\ Deliver(MouseMotionEvent(1, 1))
    /\ UNCHANGED << touch_fingers, sdl_joysticks >>

\* a joystick is plugged in
PlatformJoyAdded ==
    /\ event_family = "joystick"
    /\ \E id \in JoystickIds :
          /\ \A i \in 1..Len(sdl_joysticks) : sdl_joysticks[i] # id
          /\ sdl_joysticks' = Append(sdl_joysticks, id)
          /\ Deliver(JoyDeviceEvent("SDL_JOYDEVICEADDED", id))
    /\ UNCHANGED << touch_fingers, frame_motions >>

\* a joystick is unplugged
PlatformJoyRemoved ==
    /\ event_family = "joystick"
    /\ \E i \in 1..Len(sdl_joysticks) :
          /\ sdl_joysticks' = [k \in 1..(Len(sdl_joysticks) - 1) |->
                                 IF k < i THEN sdl_joysticks[k] ELSE sdl_joysticks[k + 1]]
          /\ Deliver(JoyDeviceEvent("SDL_JOYDEVICEREMOVED", sdl_joysticks[i]))
    /\ UNCHANGED << touch_fingers, frame_motions >>

\* an opened joystick reports an axis, a button or a hat
PlatformJoyInput ==
    /\ event_family = "joystick"
    /\ \E id \in DOMAIN joystick_map :
          /\ joystick_map[id].joystick_data # "nullptr"
          /\ \E i \in 1..Len(sdl_joysticks) : sdl_joysticks[i] = id
          /\ \E ev \in { JoyAxisEvent(id, 0, 32767), JoyButtonEvent(id, 0, TRUE),
                         JoyHatEvent(id, 0, 1) } : Deliver(ev)
    /\ UNCHANGED << touch_fingers, frame_motions, sdl_joysticks >>

\* raw axis values (Sint16): the two ends of the range, the ends of the
\* symmetric range, the centre and a value on each side of it
RawAxisValues == {-32768, -32767, -16384, 0, 16384, 32767}

\* hat values (Uint8): the nine of SDL_HAT_*, the other combinations of the
\* four direction bits, and values above them
RawHatValues == (0..16) \cup {255}

\* an opened joystick reports an axis position, any of the raw values
PlatformJoyAxis ==
    /\ event_family = "joystick_input"
    /\ \E id \in DOMAIN joystick_map, raw \in RawAxisValues :
          /\ joystick_map[id].joystick_data # "nullptr"
          /\ Deliver(JoyAxisEvent(id, 0, raw))
    /\ UNCHANGED << touch_fingers, frame_motions, sdl_joysticks >>

\* an opened joystick reports a hat position, any of the raw values
PlatformJoyHat ==
    /\ event_family = "joystick_input"
    /\ \E id \in DOMAIN joystick_map, raw \in RawHatValues :
          /\ joystick_map[id].joystick_data # "nullptr"
          /\ Deliver(JoyHatEvent(id, 0, raw))
    /\ UNCHANGED << touch_fingers, frame_motions, sdl_joysticks >>

\* the events of every kind that the platform delivers; it delivers the end
\* of a key press and the editing of a text while text input is recorded
MixedEvents ==
    { QuitEvent, KeyEvent(1, TRUE), MouseWheelEvent(1),
      WindowEvent(SDL_WINDOWEVENT_RESIZED, 1), WindowEvent(SDL_WINDOWEVENT_MOVED, 0),
      TextInputEvent(1), MultiGestureEvent, ClipboardUpdateEvent }
      \cup (IF record_text_input THEN { KeyEvent(1, FALSE), TextEditingEvent(1) }
            ELSE {})

PlatformMixed ==
    /\ event_family = "mixed"
    /\ \E ev \in MixedEvents :
          /\ ev.type = "SDL_MOUSEWHEEL" => frame_motions < MaxFrameMotions
          /\ frame_motions' =
                IF ev.type = "SDL_MOUSEWHEEL" THEN frame_motions + 1
                ELSE frame_motions
          /\ Deliver(ev)
    /\ UNCHANGED << touch_fingers, sdl_joysticks >>

\* void set_record_text_input(bool b) (fplbase/input.h), between two calls
\* of UpdateEvents and once the application has read the recorded events
SetRecordTextInput ==
    /\ event_family = "mixed"
    /\ pc_update = "idle"
    /\ sdl_queue = << >>
    /\ text_input_events = << >>
    /\ record_text_input' = ~record_text_input
    /\ UNCHANGED << platform_mobile, event_family, sdl_queue, touch_fingers,
                    frame_motions, pc_update, button_map, pointers, touch_device,
                    exit_requested, window_size, text_input_events, nchanges,
                    mouse_marked, tap, after_quit, mousewheel_delta, update_call,
                    joystick_vars, gamepad_vars, hmd_vars, app_vars >>

\* the application clears text_input_events_ once it has read the events
ClearTextInputEvents ==
    /\ event_family = "mixed"
    /\ pc_update = "idle"
    /\ text_input_events # << >>
    /\ text_input_events' = << >>
    /\ UNCHANGED << platform_mobile, event_family, sdl_queue, touch_fingers,
                    frame_motions, pc_update, button_map, pointers, touch_device,
                    exit_requested, window_size, record_text_input, nchanges,
                    mouse_marked, tap, after_quit, mousewheel_delta, update_call,
                    joystick_vars, gamepad_vars, hmd_vars, app_vars >>

\* UpdateEvents is called
UpdateEventsBegin ==
    /\ pc_update = "idle"
    /\ pc_update' = "polling"
    /\ after_quit' = NoQuit
    /\ update_call' = ObservedCall([queued |-> sdl_queue, polled |-> << >>])
    /\ UNCHANGED << platform_mobile, event_family, sdl_queue, touch_fingers,
                    mousewheel_delta,
                    frame_motions, button_map, pointers, touch_device,
                    exit_requested, window_size, record_text_input,
                    text_input_events, nchanges, mouse_marked, tap,
                    joystick_vars, gamepad_vars, hmd_vars, app_vars >>

\* SDL_PollEvent returns 0: the loop ends and UpdateEvents returns
UpdateEventsEnd ==
    /\ pc_update = "polling"
    /\ sdl_queue = << >>
    /\ pc_update' = "idle"
    /\ update_call' = NoCall
    /\ UNCHANGED << platform_mobile, event_family, sdl_queue, touch_fingers,
                    frame_motions, button_map, pointers, touch_device,
                    exit_requested, window_size, record_text_input,
                    text_input_events, nchanges, mouse_marked, tap, after_quit,
                    mousewheel_delta,
                    joystick_vars, gamepad_vars, hmd_vars, app_vars >>

\* SDL_PollEvent returns an event of one of the types
Polled(types) ==
    /\ pc_update = "polling"
    /\ sdl_queue # << >>
    /\ Head(sdl_queue).type \in types

\* the event is taken off the queue and the input state becomes s
DispatchTo(s) ==
    /\ sdl_queue' = Tail(sdl_queue)
    /\ button_map' = s.button_map
    /\ pointers' = s.pointers
    /\ touch_device' = s.touch_device
    /\ exit_requested' = s.exit_requested
    /\ window_size' = s.window_size
    /\ text_input_events' = s.text_input_events
    /\ mousewheel_delta' = s.mousewheel_delta
    /\ update_call' =
          ObservedCall([update_call EXCEPT !.polled = Append(@, Head(sdl_queue))])
    /\ nchanges' = NoteChanges(button_map, s.button_map, nchanges)
    /\ after_quit' =
          IF Head(sdl_queue).type = "SDL_QUIT"
          THEN [quit |-> TRUE, behind |-> Len(sdl_queue) - 1, served |-> FALSE]
          ELSE IF after_quit.behind > 0
          THEN [after_quit EXCEPT !.behind = @ - 1, !.served = TRUE]
          ELSE after_quit
    /\ UNCHANGED << platform_mobile, event_family, touch_fingers, frame_motions,
                    pc_update, record_text_input, gamepad_vars, hmd_vars, app_vars >>

DispatchQuit ==
    /\ Polled({"SDL_QUIT"})
    /\ DispatchTo(OnQuit(InputState, Head(sdl_queue)))
    /\ tap' = NoTap
    /\ UNCHANGED << mouse_marked, joystick_vars >>

DispatchKey ==
    /\ Polled({"SDL_KEYDOWN", "SDL_KEYUP"})
    /\ DispatchTo(OnKey(InputState, Head(sdl_queue), record_text_input))
    /\ tap' = NoTap
    /\ UNCHANGED << mouse_marked, joystick_vars >>

DispatchFingerDown ==
    /\ Polled({"SDL_FINGERDOWN"})
    /\ LET ev == Head(sdl_queue)
           s == OnFingerDown(InputState, ev, platform_mobile, touch_fingers)
           ordinal == UpdateDragPosition(pointers, ev, "SDL_FINGERDOWN",
                                         window_size, touch_fingers).index
       IN  /\ DispatchTo(s)
           /\ mouse_marked' = (mouse_marked /\ s.pointers[0].used)
           /\ tap' = IF ~platform_mobile THEN NoTap
                     ELSE IF tap.stage = "tapped"
                     THEN [stage |-> IF ordinal = 0 THEN "reused" ELSE "not_reused",
                           id |-> 0]
                     ELSE IF \A i \in PointerIndices : ~pointers[i].used
                     THEN [stage |-> "down", id |-> ev.which]
                     ELSE NoTap
    /\ UNCHANGED joystick_vars

DispatchFingerUp ==
    /\ Polled({"SDL_FINGERUP"})
    /\ LET ev == Head(sdl_queue)
           s == OnFingerUp(InputState, ev, platform_mobile)
       IN  /\ DispatchTo(s)
           /\ mouse_marked' = (mouse_marked /\ s.pointers[0].used)
           /\ tap' = IF tap.stage = "down" /\ tap.id = ev.which
                     THEN [stage |-> "tapped", id |-> 0] ELSE NoTap
    /\ UNCHANGED joystick_vars

DispatchFingerMotion ==
    /\ Polled({"SDL_FINGERMOTION"})
    /\ LET s == OnFingerMotion(InputState, Head(sdl_queue), platform_mobile, touch_fingers)
       IN  /\ DispatchTo(s)
           /\ mouse_marked' = (mouse_marked /\ s.pointers[0].used)
    /\ tap' = NoTap
    /\ UNCHANGED joystick_vars

DispatchMouseButton ==
    /\ Polled({"SDL_MOUSEBUTTONDOWN", "SDL_MOUSEBUTTONUP"})
    /\ DispatchTo(OnMouseButton(InputState, Head(sdl_queue)))
    /\ mouse_marked' = TRUE
    /\ tap' = NoTap
    /\ UNCHANGED joystick_vars

DispatchMouseMotion ==
    /\ Polled({"SDL_MOUSEMOTION"})
    /\ DispatchTo(OnMouseMotion(InputState, Head(sdl_queue), platform_mobile))
    /\ tap' = NoTap
    /\ UNCHANGED << mouse_marked, joystick_vars >>

DispatchJoystick ==
    /\ Polled({"SDL_JOYAXISMOTION", "SDL_JOYBUTTONDOWN", "SDL_JOYBUTTONUP",
               "SDL_JOYHATMOTION", "SDL_JOYDEVICEADDED", "SDL_JOYDEVICEREMOVED"})
    /\ DispatchTo(InputState)
    /\ joystick_map' = HandleJoystickEvent(joystick_map, Head(sdl_queue), sdl_joysticks)
    /\ tap' = NoTap
    /\ UNCHANGED << mouse_marked, sdl_joysticks >>

DispatchMouseWheel ==
    /\ Polled({"SDL_MOUSEWHEEL"})
    /\ DispatchTo(OnMouseWheel(InputState, Head(sdl_queue)))
    /\ tap' = NoTap
    /\ UNCHANGED << mouse_marked, joystick_vars >>

DispatchWindowEvent ==
    /\ Polled({"SDL_WINDOWEVENT"})
    /\ DispatchTo(OnWindowEvent(InputState, Head(sdl_queue)))
    /\ tap' = NoTap
    /\ UNCHANGED << mouse_marked, joystick_vars >>

DispatchTextEditing ==
    /\ Polled({"SDL_TEXTEDITING"})
    /\ DispatchTo(OnTextEditing(InputState, Head(sdl_queue), record_text_input))
    /\ tap' = NoTap
    /\ UNCHANGED << mouse_marked, joystick_vars >>

DispatchTextInput ==
    /\ Polled({"SDL_TEXTINPUT"})
    /\ DispatchTo(OnTextInput(InputState, Head(sdl_queue), record_text_input))
    /\ tap' = NoTap
    /\ UNCHANGED << mouse_marked, joystick_vars >>

DispatchMultiGesture ==
    /\ Polled({"SDL_MULTIGESTURE"})
    /\ DispatchTo(OnMultiGesture(InputState, Head(sdl_queue)))
    /\ tap' = NoTap
    /\ UNCHANGED << mouse_marked, joystick_vars >>

\* SDL_PollEvent returns an event of a type without a case label
DispatchDefault ==
    /\ pc_update = "polling"
    /\ sdl_queue # << >>
    /\ Head(sdl_queue).type \notin HandledEventTypes
    /\ DispatchTo(OnDefault(InputState, Head(sdl_queue)))
    /\ tap' = NoTap
    /\ UNCHANGED << mouse_marked, joystick_vars >>

\* InputSystem::AdvanceFrame (input.cpp), the per-frame reset: the edge flags
\* of every button are cleared and the pointers' deltas set to zero.  It
\* neither reads nor writes the platform queue, so it commutes with a
\* delivery; the frames are taken with the queue drained.
AdvanceFrame ==
    /\ pc_update = "idle"
    /\ sdl_queue = << >>
    /\ event_family = "lifecycle" => frames < MaxFrames
    /\ frames' = IF event_family = "lifecycle" THEN frames + 1 ELSE frames
    /\ button_map' = [c \in ButtonCodes |-> Button_AdvanceFrame(button_map[c])]
    /\ pointers' = [i \in PointerIndices |-> [pointers[i] EXCEPT !.mousedelta = 0]]
    /\ joystick_map' = [id \in DOMAIN joystick_map |->
          [joystick_map[id] EXCEPT !.buttons =
              [i \in JoystickControls |-> Button_AdvanceFrame(joystick_map[id].buttons[i])]]]
    /\ nchanges' = [c \in KeyCodes |-> 0]
    /\ frame_motions' = 0
    /\ mousewheel_delta' = 0
    /\ UNCHANGED << platform_mobile, event_family, sdl_queue, touch_fingers,
                    pc_update, touch_device, exit_requested, window_size,
                    record_text_input, text_input_events, mouse_marked, tap, after_quit,
                    update_call,
                    sdl_joysticks, gamepad_vars, hmd_vars, android_build,
                    app_event_callbacks, minimized, minimized_frame,
                    relative_mouse_mode_, sdl_relative_mouse_mode, pc_app,
                    app_event, callback_it, callback_log, app_return >>

\* ------------------------------------------------------------------------
\* Lifecycle events: HandleAppEvents, the filter SDL calls with every event
\* before the event is queued
\* ------------------------------------------------------------------------

LifecycleEvents ==
    {"SDL_APP_TERMINATING", "SDL_APP_LOWMEMORY", "SDL_APP_WILLENTERBACKGROUND",
     "SDL_APP_DIDENTERBACKGROUND", "SDL_APP_WILLENTERFOREGROUND",
     "SDL_APP_DIDENTERFOREGROUND"}

NoReturn == [type |-> "none", passthrough |-> -1, callbacks |-> << >>]

InitAppVars ==
    /\ android_build \in BOOLEAN
    /\ app_event_callbacks = << >>
    /\ minimized = FALSE
    /\ minimized_frame = 0
    /\ frames = 0
    /\ relative_mouse_mode_ = FALSE
    /\ sdl_relative_mouse_mode = FALSE
    /\ pc_app = "idle"
    /\ app_event = "none"
    /\ callback_it = 1
    /\ callback_log = << >>
    /\ app_return = NoReturn

\* InputSystem::AddAppEventCallback (input.h): push_back on the callbacks;
\* a callback is named by the rank of its registration
AddAppEventCallback ==
    /\ event_family = "lifecycle"
    /\ pc_app = "idle"
    /\ Len(app_event_callbacks) < MaxCallbacks
    /\ app_event_callbacks' = Append(app_event_callbacks, Len(app_event_callbacks) + 1)
    /\ UNCHANGED << input_vars, joystick_vars, gamepad_vars, hmd_vars, android_build,
                    minimized, minimized_frame, frames, relative_mouse_mode_,
                    sdl_relative_mouse_mode, pc_app, app_event, callback_it,
                    callback_log, app_return >>

\* void InputSystem::SetRelativeMouseMode(bool enabled), called by the application
SetRelativeMouseMode ==
    /\ event_family = "lifecycle"
    /\ pc_app = "idle"
    /\ \E enabled \in BOOLEAN :
          sdl_relative_mouse_mode' = IF android_build THEN sdl_relative_mouse_mode ELSE enabled
    /\ UNCHANGED << input_vars, joystick_vars, gamepad_vars, hmd_vars, android_build,
                    app_event_callbacks, minimized, minimized_frame, frames,
                    relative_mouse_mode_, pc_app, app_event, callback_it,
                    callback_log, app_return >>

\* InputSystem::ResetInputState (input.cpp): every button is released
ResetInputState(bm) == [c \in DOMAIN bm |-> NewButton]

\* the value of passthrough after the switch of HandleAppEvents
Passthrough(type) == IF type \in LifecycleEvents THEN 0 ELSE 1

\* the switch of HandleAppEvents on the fields [minimized, minimized_frame,
\* relative_mouse_mode_, button_map] of the input system
AppEventSwitch(a, type, android, sdl_mode, frame) ==
    IF type = "SDL_APP_WILLENTERBACKGROUND"
    THEN [a EXCEPT !.minimized = TRUE, !.minimized_frame = frame,
                   !.relative_mouse_mode_ = IF android THEN sdl_mode ELSE @]
    ELSE IF type = "SDL_APP_DIDENTERFOREGROUND"
    THEN [a EXCEPT !.minimized = FALSE, !.minimized_frame = frame,
                   !.button_map = IF android THEN ResetInputState(@) ELSE @]
    ELSE a

\* whether HandleAppEvents goes through the callbacks after the switch
CallsCallbacks_Always(passthrough, type) == TRUE

CallsCallbacks(passthrough, type) ==
    passthrough = 0 /\ type # "SDL_APP_TERMINATING"

\* HandleAppEvents returns passthrough; SDL queues the event when it is 1
AppReturnsTo(type, queue) ==
    /\ pc_app' = "idle"
    /\ app_return' = [type |-> type, passthrough |-> Passthrough(type),
                      callbacks |-> app_event_callbacks]
    /\ sdl_queue' = IF Passthrough(type) = 1 THEN Append(queue, KeyEvent(1, TRUE))
                    ELSE queue

\* SDL calls HandleAppEvents with an event: the switch, up to the loop over
\* the callbacks or, when no callback is to be called, up to the return
HandleAppEvents ==
    /\ event_family = "lifecycle"
    /\ pc_app = "idle"
    /\ \E type \in LifecycleEvents \cup {"SDL_KEYDOWN"} :
          LET a == AppEventSwitch(
                      [minimized |-> minimized, minimized_frame |-> minimized_frame,
                       relative_mouse_mode_ |-> relative_mouse_mode_,
                       button_map |-> button_map],
                      type, android_build, sdl_relative_mouse_mode, frames)
          IN  /\ type \notin LifecycleEvents => Len(sdl_queue) < MaxQueue
              /\ app_event' = type
              /\ minimized' = a.minimized
              /\ minimized_frame' = a.minimized_frame
              /\ relative_mouse_mode_' = a.relative_mouse_mode_
              /\ button_map' = a.button_map
              /\ nchanges' = NoteChanges(button_map, a.button_map, nchanges)
              /\ callback_log' = << >>
              /\ callback_it' = 1
              /\ IF CallsCallbacks(Passthrough(type), type)
                 THEN /\ pc_app' = "callbacks"
                      /\ UNCHANGED << app_return, sdl_queue >>
                 ELSE AppReturnsTo(type, sdl_queue)
    /\ UNCHANGED << platform_mobile, event_family, touch_fingers, frame_motions,
                    pc_update, pointers, touch_device, exit_requested,
                    window_size, record_text_input, text_input_events,
                    mouse_marked, tap, after_quit, mousewheel_delta, update_call,
                    joystick_vars, gamepad_vars, hmd_vars,
                    android_build, app_event_callbacks, frames,
                    sdl_relative_mouse_mode >>

\* one turn of the loop over the callbacks: (*callback)(event)
InvokeCallback ==
    /\ pc_app = "callbacks"
    /\ callback_it <= Len(app_event_callbacks)
    /\ callback_log' = Append(callback_log,
          [callback |-> app_event_callbacks[callback_it], event |-> app_event,
           minimized |-> minimized, minimized_frame |-> minimized_frame])
    /\ callback_it' = callback_it + 1
    /\ UNCHANGED << input_vars, joystick_vars, gamepad_vars, hmd_vars, android_build,
                    app_event_callbacks, minimized, minimized_frame, frames,
                    relative_mouse_mode_, sdl_relative_mouse_mode, pc_app,
                    app_event, app_return >>

\* the loop over the callbacks ends and HandleAppEvents returns
HandleAppEventsReturn ==
    /\ pc_app = "callbacks"
    /\ callback_it > Len(app_event_callbacks)
    /\ AppReturnsTo(app_event, sdl_queue)
    /\ UNCHANGED << platform_mobile, event_family, touch_fingers, frame_motions,
                    pc_update, button_map, pointers, touch_device,
                    exit_requested, window_size, record_text_input,
                    text_input_events, nchanges, mouse_marked, tap, after_quit,
                    mousewheel_delta, update_call,
                    joystick_vars, gamepad_vars, hmd_vars, android_build,
                    app_event_callbacks, minimized, minimized_frame, frames,
                    relative_mouse_mode_, sdl_relative_mouse_mode, app_event,
                    callback_it, callback_log >>

\* ------------------------------------------------------------------------
\* Head mounted display input (#if FPLBASE_ANDROID_VR): the frame thread
\* attaches, detaches and advances the object; the platform's callbacks
\* come on the activity's thread.  No access is synchronised.
\* ------------------------------------------------------------------------

\* Surface.ROTATION_0, ROTATION_90, ROTATION_180, ROTATION_270
Rotations == IF event_family = "hmd_transforms" THEN 0..4 ELSE 0..3

\* post * raw * pre: the matrix left by UpdateTransforms for one of the
\* three views; raw names the matrix that GetEyeViews returned, post is the
\* rotation about Z applied on its left and pre the rotation about Y applied
\* on its right, both in quarter turns modulo a full turn
Transform(post, raw, pre) == [post |-> post, raw |-> raw, pre |-> pre]

\* HeadMountedDisplayInput() (fplbase/input.h); the transforms are those the last
\* UpdateTransforms applied, in quarter turns modulo a full turn
NewHeadMountedDisplayInput ==
    [pending_trigger_ |-> FALSE, triggered_ |-> FALSE,
     device_orientation_ |-> 0, device_orientation_at_reset_ |-> 0,
     is_in_head_mounted_display_ |-> FALSE,
     use_device_orientation_correction_ |-> FALSE,
     head_transform_ |-> Transform(0, "identity", 0),
     left_eye_transform_ |-> Transform(0, "identity", 0),
     right_eye_transform_ |-> Transform(0, "identity", 0)]

\* void OnTrigger() (fplbase/input.h)
OnTrigger(h) == [h EXCEPT !.pending_trigger_ = TRUE]

\* the switch of UpdateTransforms with the half turn added for every reset
\* made in another orientation
PreCorrection_AnyMismatch(orientation, at_reset) ==
    CASE orientation = 0 -> (1 + (IF at_reset # 0 THEN 2 ELSE 0)) % 4
      [] orientation = 1 -> IF at_reset # 1 THEN 2 ELSE 0
      [] orientation = 2 -> (3 + (IF at_reset # 2 THEN 2 ELSE 0)) % 4
      [] orientation = 3 -> IF at_reset # 3 THEN 0 ELSE 2
      [] OTHER -> 0

\* the switch of UpdateTransforms: pre_correction, about Y
PreCorrection(orientation, at_reset) ==
    CASE orientation = 0 -> (1 + (IF at_reset = 2 THEN 2 ELSE 0)) % 4
      [] orientation = 1 -> IF at_reset = 3 THEN 2 ELSE 0
      [] orientation = 2 -> (3 + (IF at_reset = 0 THEN 2 ELSE 0)) % 4
      [] orientation = 3 -> IF at_reset # 1 THEN 2 ELSE 0
      [] OTHER -> 0

\* the switch of UpdateTransforms: post_correction, about Z
PostCorrection(orientation) ==
    CASE orientation = 0 -> 3
      [] orientation = 2 -> 1
      [] orientation = 3 -> 2
      [] OTHER -> 0

\* void HeadMountedDisplayInput::UpdateTransforms()
UpdateTransforms(h) ==
    LET corrected == h.use_device_orientation_correction_
        post_correction == IF corrected THEN PostCorrection(h.device_orientation_)
                           ELSE 0
        pre_correction == IF corrected
                          THEN PreCorrection(h.device_orientation_,
                                             h.device_orientation_at_reset_)
                          ELSE 0
    IN  [h EXCEPT !.head_transform_ = Transform(post_correction, "head", pre_correction),
                  !.left_eye_transform_ =
                      Transform(post_correction, "left_eye", pre_correction),
                  !.right_eye_transform_ =
                      Transform(post_correction, "right_eye", pre_correction)]

InitHMDVars ==
    /\ g_head_mounted_display_input = "nullptr"
    /\ g_device_orientation = 0
    /\ head_mounted_display_input_ = NewHeadMountedDisplayInput
    /\ pc_hmd = [frame |-> "idle", argument |-> 0, jni |-> "idle", rotation |-> 0]
    /\ hmd_obs = [failed |-> "none", attached |-> FALSE, calls |-> 0,
                  notified |-> -1, frames |-> 0, notifications |-> 0]

\* the process runs: no assertion has failed, no null pointer was used
HMDRunning == event_family \in {"hmd", "hmd_transforms"} /\ hmd_obs.failed = "none"

\* InitHMDJNIReference: the assertion, g_head_mounted_display_input = this,
\* and the read of g_device_orientation for the call of line 548
InitHMDJNIReference ==
    /\ HMDRunning
    /\ pc_hmd.frame = "idle"
    /\ IF g_head_mounted_display_input # "nullptr" /\ ~ndebug
       THEN /\ hmd_obs' = [hmd_obs EXCEPT !.failed = "assert"]
            /\ UNCHANGED << g_head_mounted_display_input, pc_hmd >>
       ELSE /\ g_head_mounted_display_input' = "this"
            /\ pc_hmd' = [pc_hmd EXCEPT !.frame = "set_orientation",
                                        !.argument = g_device_orientation]
            /\ hmd_obs' = [hmd_obs EXCEPT !.attached = TRUE]
    /\ UNCHANGED << input_vars, joystick_vars, gamepad_vars, app_vars,
                    g_device_orientation, head_mounted_display_input_, ndebug >>

\* InitHMDJNIReference: set_device_orientation stores its argument
InitSetDeviceOrientation ==
    /\ HMDRunning
    /\ pc_hmd.frame = "set_orientation"
    /\ head_mounted_display_input_' =
          [head_mounted_display_input_ EXCEPT !.device_orientation_ = pc_hmd.argument]
    /\ pc_hmd' = [pc_hmd EXCEPT !.frame = "idle"]
    /\ UNCHANGED << input_vars, joystick_vars, gamepad_vars, app_vars,
                    g_head_mounted_display_input, g_device_orientation, ndebug,
                    hmd_obs >>

\* void HeadMountedDisplayInput::ClearHMDJNIReference()
ClearHMDJNIReference ==
    /\ HMDRunning
    /\ pc_hmd.frame = "idle"
    /\ IF g_head_mounted_display_input = "nullptr" /\ ~ndebug
       THEN /\ hmd_obs' = [hmd_obs EXCEPT !.failed = "assert"]
            /\ UNCHANGED g_head_mounted_display_input
       ELSE /\ g_head_mounted_display_input' = "nullptr"
            /\ hmd_obs' = [hmd_obs EXCEPT !.attached = FALSE]
    /\ UNCHANGED << input_vars, joystick_vars, gamepad_vars, app_vars,
                    g_device_orientation, head_mounted_display_input_, ndebug,
                    pc_hmd >>

\* HeadMountedDisplayInput::AdvanceFrame: UpdateTransforms() and
\* triggered_ = pending_trigger_
HMDAdvanceFrame ==
    /\ HMDRunning
    /\ pc_hmd.frame = "idle"
    /\ hmd_obs.frames < MaxHMDFrames
    /\ head_mounted_display_input_' =
          [UpdateTransforms(head_mounted_display_input_) EXCEPT
              !.triggered_ = head_mounted_display_input_.pending_trigger_]
    /\ pc_hmd' = [pc_hmd EXCEPT !.frame = "clear_pending"]
    /\ UNCHANGED << input_vars, joystick_vars, gamepad_vars, app_vars,
                    g_head_mounted_display_input, g_device_orientation, ndebug,
                    hmd_obs >>

\* HeadMountedDisplayInput::AdvanceFrame: pending_trigger_ = false, and the
\* return
HMDClearPending ==
    /\ HMDRunning
    /\ pc_hmd.frame = "clear_pending"
    /\ head_mounted_display_input_' =
          [head_mounted_display_input_ EXCEPT !.pending_trigger_ = FALSE]
    /\ pc_hmd' = [pc_hmd EXCEPT !.frame = "idle"]
    /\ hmd_obs' = [hmd_obs EXCEPT !.calls = 0, !.frames = @ + 1]
    /\ UNCHANGED << input_vars, joystick_vars, gamepad_vars, app_vars,
                    g_head_mounted_display_input, g_device_orientation, ndebug >>

\* void HeadMountedDisplayInput::ResetHeadTracker()
ResetHeadTracker ==
    /\ HMDRunning
    /\ pc_hmd.frame = "idle"
    /\ head_mounted_display_input_' =
          [head_mounted_display_input_ EXCEPT !.device_orientation_at_reset_ =
              head_mounted_display_input_.device_orientation_]
    /\ UNCHANGED << input_vars, joystick_vars, gamepad_vars, app_vars,
                    g_head_mounted_display_input, g_device_orientation, ndebug,
                    pc_hmd, hmd_obs >>

\* void HeadMountedDisplayInput::EnableDeviceOrientationCorrection()
EnableDeviceOrientationCorrection ==
    /\ HMDRunning
    /\ pc_hmd.frame = "idle"
    /\ head_mounted_display_input_' =
          [head_mounted_display_input_ EXCEPT
              !.use_device_orientation_correction_ = TRUE]
    /\ UNCHANGED << input_vars, joystick_vars, gamepad_vars, app_vars,
                    g_head_mounted_display_input, g_device_orientation, ndebug,
                    pc_hmd, hmd_obs >>

\* UpdateEvents, case SDL_MOUSEBUTTONDOWN with the button pressed:
\* head_mounted_display_input_.OnTrigger() on the frame thread
MouseButtonTrigger ==
    /\ HMDRunning
    /\ pc_hmd.frame = "idle"
    /\ hmd_obs.calls < MaxTriggers
    /\ head_mounted_display_input_' = OnTrigger(head_mounted_display_input_)
    /\ hmd_obs' = [hmd_obs EXCEPT !.calls = @ + 1]
    /\ UNCHANGED << input_vars, joystick_vars, gamepad_vars, app_vars,
                    g_head_mounted_display_input, g_device_orientation, ndebug,
                    pc_hmd >>

\* the outcome of a member call through g_head_mounted_display_input when it
\* is null: the assertion fails, or the null pointer is used where assert()
\* is compiled out
CallOnNull == IF ndebug THEN "null_dereference" ELSE "assert_in_callback"

\* Java_com_google_fpl_fplbase_FPLActivity_nativeOnCardboardTrigger
NativeOnCardboardTrigger ==
    /\ HMDRunning
    /\ pc_hmd.jni = "idle"
    /\ hmd_obs.calls < MaxTriggers
    /\ IF g_head_mounted_display_input = "nullptr"
       THEN /\ hmd_obs' = [hmd_obs EXCEPT !.failed = CallOnNull]
            /\ UNCHANGED head_mounted_display_input_
       ELSE /\ head_mounted_display_input_' = OnTrigger(head_mounted_display_input_)
            /\ hmd_obs' = [hmd_obs EXCEPT !.calls = @ + 1]
    /\ UNCHANGED << input_vars, joystick_vars, gamepad_vars, app_vars,
                    g_head_mounted_display_input, g_device_orientation, ndebug,
                    pc_hmd >>

\* Java_com_google_fpl_fplbase_FPLActivity_nativeSetDeviceInCardboard
NativeSetDeviceInCardboard ==
    /\ HMDRunning
    /\ pc_hmd.jni = "idle"
    /\ hmd_obs.notifications < MaxNotifications
    /\ \E in_cardboard \in BOOLEAN :
          IF g_head_mounted_display_input = "nullptr"
          THEN /\ hmd_obs' = [hmd_obs EXCEPT !.failed = CallOnNull]
               /\ UNCHANGED head_mounted_display_input_
          ELSE /\ head_mounted_display_input_' =
                     [head_mounted_display_input_ EXCEPT
                         !.is_in_head_mounted_display_ = in_cardboard]
               /\ hmd_obs' = [hmd_obs EXCEPT !.notifications = @ + 1]
    /\ UNCHANGED << input_vars, joystick_vars, gamepad_vars, app_vars,
                    g_head_mounted_display_input, g_device_orientation, ndebug,
                    pc_hmd >>

\* Java_com_google_fpl_fplbase_FPLActivity_nativeOnDisplayRotationChanged:
\* g_device_orientation = rotation
NativeOnDisplayRotationChanged ==
    /\ HMDRunning
    /\ pc_hmd.jni = "idle"
    /\ hmd_obs.notifications < MaxNotifications
    /\ \E rotation \in Rotations :
          /\ g_device_orientation' = rotation
          /\ pc_hmd' = [pc_hmd EXCEPT !.jni = "forward", !.rotation = rotation]
    /\ hmd_obs' = [hmd_obs EXCEPT !.notifications = @ + 1]
    /\ UNCHANGED << input_vars, joystick_vars, gamepad_vars, app_vars,
                    g_head_mounted_display_input, head_mounted_display_input_,
                    ndebug >>

\* nativeOnDisplayRotationChanged: if (g_head_mounted_display_input)
\* g_head_mounted_display_input->set_device_orientation(rotation), and the
\* return
NativeForwardRotation ==
    /\ HMDRunning
    /\ pc_hmd.jni = "forward"
    /\ head_mounted_display_input_' =
          IF g_head_mounted_display_input # "nullptr"
          THEN [head_mounted_display_input_ EXCEPT
                   !.device_orientation_ = pc_hmd.rotation]
          ELSE head_mounted_display_input_
    /\ pc_hmd' = [pc_hmd EXCEPT !.jni = "idle"]
    /\ hmd_obs' = [hmd_obs EXCEPT !.notified = pc_hmd.rotation]
    /\ UNCHANGED << input_vars, joystick_vars, gamepad_vars, app_vars,
                    g_head_mounted_display_input, g_device_orientation, ndebug >>

NextHMD ==
    \/ InitHMDJNIReference
    \/ InitSetDeviceOrientation
    \/ ClearHMDJNIReference
    \/ HMDAdvanceFrame
    \/ HMDClearPending
    \/ ResetHeadTracker
    \/ EnableDeviceOrientationCorrection
    \/ MouseButtonTrigger
    \/ NativeOnCardboardTrigger
    \/ NativeSetDeviceInCardboard
    \/ NativeOnDisplayRotationChanged
    \/ NativeForwardRotation

\* the build targets: a desktop, a mobile platform other than Android, Android
Builds ==
    { [mobile |-> FALSE, android |-> FALSE], [mobile |-> TRUE, android |-> FALSE],
      [mobile |-> TRUE, android |-> TRUE] }

InitDispatcher(family, builds, connected) ==
    /\ event_family = family
    /\ InitInputVars
    /\ InitJoystickVars
    /\ InitGamepadVars
    /\ burst = FALSE
    /\ InitAppVars
    /\ InitHMDVars
    /\ ndebug = FALSE
    /\ [mobile |-> platform_mobile, android |-> android_build] \in builds
    /\ sdl_joysticks \in connected

\* a VR build for Android, with assert() compiled in or out
InitHMD ==
    /\ event_family = "hmd"
    /\ InitInputVars
    /\ platform_mobile = TRUE
    /\ InitJoystickVars
    /\ sdl_joysticks = << >>
    /\ InitGamepadVars
    /\ burst = FALSE
    /\ InitAppVars
    /\ android_build = TRUE
    /\ InitHMDVars
    /\ ndebug \in BOOLEAN
SpecHMD == InitHMD /\ [][NextHMD]_vars

\* the frame thread of a VR build under rotation notifications, one of them
\* with a rotation that the switch of UpdateTransforms does not list
NextHMDTransforms ==
    \/ InitHMDJNIReference
    \/ InitSetDeviceOrientation
    \/ HMDAdvanceFrame
    \/ HMDClearPending
    \/ ResetHeadTracker
    \/ EnableDeviceOrientationCorrection
    \/ NativeOnDisplayRotationChanged
    \/ NativeForwardRotation

InitHMDTransforms ==
    /\ InitDispatcher("hmd_transforms", {[mobile |-> TRUE, android |-> TRUE]},
                      {<< >>})
SpecHMDTransforms == InitHMDTransforms /\ [][NextHMDTransforms]_vars

\* the dispatcher under keyboard and quit events
NextKeyboard ==
    \/ PlatformKeyboard
    \/ UpdateEventsBegin
    \/ UpdateEventsEnd
    \/ DispatchQuit
    \/ DispatchKey
    \/ AdvanceFrame

InitKeyboard == InitDispatcher("keyboard", Builds, {<< >>})
SpecKeyboard == InitKeyboard /\ [][NextKeyboard]_vars

\* the dispatcher under touch and mouse events
NextPointer ==
    \/ PlatformFingerDown
    \/ PlatformFingerUp
    \/ PlatformFingerMotion
    \/ PlatformMouseButton
    \/ PlatformMouseMotion
    \/ UpdateEventsBegin
    \/ UpdateEventsEnd
    \/ DispatchFingerDown
    \/ DispatchFingerUp
    \/ DispatchFingerMotion
    \/ DispatchMouseButton
    \/ DispatchMouseMotion
    \/ AdvanceFrame

InitPointer ==
    InitDispatcher("pointer", { b \in Builds : b.mobile = b.android }, {<< >>})
SpecPointer == InitPointer /\ [][NextPointer]_vars

\* the dispatcher of a mobile build under touch events alone, from more
\* fingers than there are pointer slots
NextTouch ==
    \/ PlatformFingerDown
    \/ PlatformFingerUp
    \/ PlatformFingerMotion
    \/ UpdateEventsBegin
    \/ UpdateEventsEnd
    \/ DispatchFingerDown
    \/ DispatchFingerUp
    \/ DispatchFingerMotion
    \/ AdvanceFrame

InitTouch ==
    InitDispatcher("touch", { b \in Builds : b.mobile /\ b.android }, {<< >>})
SpecTouch == InitTouch /\ [][NextTouch]_vars

\* one iteration of the loop of UpdateEvents, or its end, under events of
\* every kind
UpdateEventsLoop ==
    \/ DispatchQuit
    \/ DispatchKey
    \/ DispatchMouseWheel
    \/ DispatchWindowEvent
    \/ DispatchTextEditing
    \/ DispatchTextInput
    \/ DispatchMultiGesture
    \/ DispatchDefault
    \/ UpdateEventsEnd

\* the dispatcher under events of every kind, all of them delivered between
\* two calls of UpdateEvents
NextMixed ==
    \/ PlatformMixed
    \/ SetRecordTextInput
    \/ ClearTextInputEvents
    \/ UpdateEventsBegin
    \/ UpdateEventsLoop
    \/ AdvanceFrame

InitMixed ==
    InitDispatcher("mixed", { b \in Builds : ~b.mobile }, {<< >>})

\* UpdateEvents is a loop on the calling thread: once called, the thread runs
\* every iteration that is enabled and then returns
SpecMixed == InitMixed /\ [][NextMixed]_vars /\ WF_vars(UpdateEventsLoop)

\* the dispatcher under joystick events
NextJoystick ==
    \/ PlatformJoyAdded
    \/ PlatformJoyRemoved
    \/ PlatformJoyInput
    \/ UpdateEventsBegin
    \/ UpdateEventsEnd
    \/ DispatchJoystick
    \/ AdvanceFrame

InitJoystick ==
    InitDispatcher("joystick", { b \in Builds : ~b.mobile }, {<< >>, << 0 >>})
SpecJoystick == InitJoystick /\ [][NextJoystick]_vars

\* the dispatcher under the axis and hat events of one connected joystick
NextJoystickInput ==
    \/ PlatformJoyAxis
    \/ PlatformJoyHat
    \/ UpdateEventsBegin
    \/ UpdateEventsEnd
    \/ DispatchJoystick
    \/ AdvanceFrame

InitJoystickInput ==
    InitDispatcher("joystick_input", { b \in Builds : ~b.mobile }, {<< 0 >>})
SpecJoystickInput == InitJoystickInput /\ [][NextJoystickInput]_vars

\* the lifecycle filter, with the dispatcher for the events it lets through
NextLifecycle ==
    \/ AddAppEventCallback
    \/ SetRelativeMouseMode
    \/ HandleAppEvents
    \/ InvokeCallback
    \/ HandleAppEventsReturn
    \/ UpdateEventsBegin
    \/ UpdateEventsEnd
    \/ DispatchKey
    \/ AdvanceFrame

InitLifecycle ==
    InitDispatcher("lifecycle", { b \in Builds : b.mobile = b.android }, {<< >>})
SpecLifecycle == InitLifecycle /\ [][NextLifecycle]_vars


\* the gamepad path with unconstrained event contents
InitOutsideGamepad ==
    /\ event_family = "none"
    /\ InitInputVars
    /\ platform_mobile = TRUE
    /\ InitJoystickVars
    /\ sdl_joysticks = << >>
    /\ InitAppVars
    /\ InitHMDVars
    /\ ndebug = FALSE
    /\ android_build = TRUE

InitGamepad == InitGamepadVars /\ burst = FALSE /\ InitOutsideGamepad
SpecGamepad == InitGamepad /\ [][NextGamepad]_vars

\* the gamepad path with every key code and motions on both sides of the
\* threshold
InitGamepadInput ==
    /\ InitGamepadVars
    /\ burst = FALSE
    /\ InitInputVars
    /\ event_family = "gamepad_input"
    /\ platform_mobile = TRUE
    /\ InitJoystickVars
    /\ sdl_joysticks = << >>
    /\ InitAppVars
    /\ InitHMDVars
    /\ ndebug = FALSE
    /\ android_build = TRUE
SpecGamepadInput == InitGamepadInput /\ [][NextGamepad]_vars

\* the gamepad path with producers that flood the queue
InitGamepadFlood == InitGamepadVars /\ burst = TRUE /\ InitOutsideGamepad
SpecGamepadFlood == InitGamepadFlood /\ [][NextGamepad]_vars

\* ---- claims about the gamepad path --------------------------------------

GamepadButton(g, c) ==
    IF g \in DOMAIN gamepad_map THEN gamepad_map[g].button_list[c] ELSE NewButton

\* C1: a Button's went_down flag is true exactly when, since the most recent
\* AdvanceFrame, some Update changed is_down from false to true, and its
\* went_up flag exactly when some Update changed it from true to false; so an
\* Update that leaves is_down alone raises no flag and both flags are false
\* from AdvanceFrame until the next Update.
C1_EdgeFlagsFollowChanges ==
    \A g \in GamepadDeviceIds : \A c \in GamepadInputButton :
        /\ GamepadButton(g, c).went_down = edge_down[g][c]
        /\ GamepadButton(g, c).went_up = edge_up[g][c]

\* a button released in a frame after the one it was pressed in
C1_Witness ==
    \E g \in GamepadDeviceIds : \E c \in GamepadInputButton :
        /\ GamepadButton(g, c).went_up
        /\ ~GamepadButton(g, c).went_down
        /\ ~GamepadButton(g, c).is_down

Upto(n) == [i \in 1..n |-> i]

\* C3: when the calls of ReceiveGamepadEvent made between two calls of
\* HandleGamepadEvents number N, the drain processes the first
\* min(N, kMaxAndroidEventsPerFrame) of them in the order of their pushes,
\* and the queue is empty when HandleGamepadEvents returns.
C3_DrainTakesFirstCapacity ==
    /\ (pc_handle = "loop" /\ unhandled_java_input_events = << >> /\ ~overlap)
          => processed = Upto(Min(started, kMaxAndroidEventsPerFrame))
    /\ pc_handle = "unlock" => unhandled_java_input_events = << >>

\* C4: the queue never holds more than kMaxAndroidEventsPerFrame events and
\* is read and written, its size included, only by the holder of the mutex.
C4_QueueBoundedUnderMutex ==
    /\ Len(unhandled_java_input_events) <= kMaxAndroidEventsPerFrame
    /\ ~unlocked_access


\* ---- claims about the dispatcher ----------------------------------------

\* C2, as stated: in every reachable state at most one of went_down and
\* went_up is true for each button, however many updates were dispatched
\* since AdvanceFrame.
C2_AtMostOneEdgeFlag ==
    \A c \in ButtonCodes : ~(button_map[c].went_down /\ button_map[c].went_up)

\* C2, amended: a key whose is_down did not change since AdvanceFrame has no
\* edge flag; after one change it has exactly the flag of that change; both
\* flags are true only after at least two changes, as when a press and a
\* release of the key are dispatched in one drain.
C2_EdgeFlagsCountChanges ==
    \A c \in KeyCodes :
        LET b == button_map[c]
        IN  /\ nchanges[c] = 0 => ~b.went_down /\ ~b.went_up
            /\ nchanges[c] = 1 => /\ b.went_down = b.is_down
                                  /\ b.went_up = ~b.is_down
            /\ nchanges[c] = 2 => b.went_down /\ b.went_up

C2_Witness ==
    /\ nchanges[KeySym(1)] = 2
    /\ button_map[KeySym(1)].went_down
    /\ button_map[KeySym(1)].went_up
    /\ ~button_map[KeySym(1)].is_down

\* the step of UpdateEvents that dispatches an event of one of the types
DispatchStep(types) == Polled(types) /\ sdl_queue' = Tail(sdl_queue)

\* C10: once a quit event has been dispatched exit_requested stays true, the
\* drain goes on after the quit event, and UpdateEvents returns only when
\* every event queued behind the quit event has been dispatched.
C10_ExitRequestedSticky ==
    [][ /\ exit_requested => exit_requested'
        /\ DispatchStep({"SDL_QUIT"}) =>
              /\ exit_requested'
              /\ pc_update' = "polling"
        /\ after_quit.quit => exit_requested
        /\ (pc_update = "polling" /\ pc_update' = "idle") =>
              /\ sdl_queue = << >>
              /\ after_quit.behind = 0 ]_vars

C10_Witness ==
    /\ pc_update = "idle"
    /\ exit_requested
    /\ after_quit.quit
    /\ after_quit.served
    /\ button_map[KeySym(1)].is_down

\* C5: on a mobile build, when a contact begins with no slot in use and the
\* next event dispatched ends the same contact, ordinal 0 is free again,
\* and a contact begun by the event after that is given ordinal 0.
C5_TapFreesOrdinalZero ==
    /\ tap.stage = "tapped" => ~pointers[0].used
    /\ tap.stage # "not_reused"

C5_Witness ==
    /\ tap.stage = "reused"
    /\ pointers[0].used
    /\ pointers[0].id \in touch_fingers

IdsOfUsedSlots == { pointers[i].id : i \in { j \in PointerIndices : pointers[j].used } }

\* no event waits in the queue and UpdateEvents is not running
Quiescent == sdl_queue = << >> /\ pc_update = "idle"

MouseEventTypes == {"SDL_MOUSEBUTTONDOWN", "SDL_MOUSEBUTTONUP", "SDL_MOUSEMOTION"}

\* C7, as stated: the dispatch of a mouse event leaves every pointer other
\* than pointer 0 and its button unchanged, and changes no used flag and no
\* id.
C7_MouseChangesOnlyPointerZero ==
    [][ DispatchStep(MouseEventTypes) =>
          /\ \A i \in PointerIndices \ {0} :
                /\ pointers'[i] = pointers[i]
                /\ button_map'[PointerCode(i)] = button_map[PointerCode(i)]
          /\ \A i \in PointerIndices :
                /\ pointers'[i].used = pointers[i].used
                /\ pointers'[i].id = pointers[i].id ]_vars

\* C7, amended: the dispatch of a mouse event changes no slot other than
\* slot 0 and no id; an event of mouse button b updates the button of
\* pointer b - 1 and no other button, and marks slot 0 used; a mouse motion
\* changes no button and no used flag, and nothing at all on a mobile build.
C7_MouseButtonUpdatesItsPointerButton ==
    [][ DispatchStep(MouseEventTypes) =>
          LET ev == Head(sdl_queue)
              code == PointerCode(ev.which - 1)
          IN  /\ \A i \in PointerIndices \ {0} : pointers'[i] = pointers[i]
              /\ pointers'[0].id = pointers[0].id
              /\ ev.type # "SDL_MOUSEMOTION" =>
                    /\ pointers'[0].used
                    /\ pointers'[0].mousedelta = pointers[0].mousedelta
                    /\ button_map'[code] = Button_Update(button_map[code], ev.pressed)
                    /\ \A c \in ButtonCodes \ {code} : button_map'[c] = button_map[c]
              /\ ev.type = "SDL_MOUSEMOTION" =>
                    /\ button_map' = button_map
                    /\ pointers'[0].used = pointers[0].used
                    /\ platform_mobile => pointers' = pointers ]_vars

C7_Witness ==
    /\ ~platform_mobile
    /\ button_map[PointerCode(1)].is_down
    /\ ~button_map[PointerCode(0)].is_down
    /\ pointers[0].used
    /\ pointers[0].mousepos = 1
    /\ pointers[0].mousedelta = 1

\* UpdateEvents returns
UpdateEventsReturns == pc_update = "polling" /\ pc_update' = "idle"

\* SDL_PollEvent returns a multi-gesture event or an event of a type that the
\* switch does not list
IgnoredEventPolled ==
    /\ pc_update = "polling"
    /\ sdl_queue # << >>
    /\ \/ Head(sdl_queue).type = "SDL_MULTIGESTURE"
       \/ Head(sdl_queue).type \notin HandledEventTypes

\* C23: with nothing enqueued during the call, a call of UpdateEvents returns
\* (the queue is then empty); when it returns, the events that SDL_PollEvent
\* gave it are those of the queue it found, each once and in the queue's order;
\* the step that takes a multi-gesture event or an event of an unlisted type
\* off the queue changes no input state and leaves the loop running on the
\* events behind it.
C23_UpdateEventsDrainsInOrder ==
    /\ (pc_update = "polling") ~> (pc_update = "idle" /\ sdl_queue = << >>)
    /\ [][ /\ UpdateEventsReturns =>
                /\ sdl_queue = << >>
                /\ update_call.polled = update_call.queued
           /\ pc_update = "polling" =>
                update_call.polled \o sdl_queue = update_call.queued
           /\ (IgnoredEventPolled /\ sdl_queue' # sdl_queue) =>
                /\ sdl_queue' = Tail(sdl_queue)
                /\ pc_update' = "polling"
                /\ InputState' = InputState
                /\ joystick_map' = joystick_map
                /\ record_text_input' = record_text_input
         ]_vars

C23_Witness ==
    /\ event_family = "mixed"
    /\ pc_update = "polling"
    /\ sdl_queue = << >>
    /\ update_call.queued = << ClipboardUpdateEvent, KeyEvent(1, TRUE) >>
    /\ update_call.polled = update_call.queued
    /\ button_map[KeySym(1)].is_down

FingerEventTypes == {"SDL_FINGERDOWN", "SDL_FINGERUP", "SDL_FINGERMOTION"}

\* C21, as stated: on a build that is not mobile the dispatch of a finger
\* event changes no pointer, no button and not touch_device; on a mobile
\* build the dispatch of a mouse button or mouse motion event changes no
\* pointer and no button and does not clear touch_device.
C21_TouchAndMouseFiltered ==
    [][ /\ (~platform_mobile /\ DispatchStep(FingerEventTypes)) =>
              /\ pointers' = pointers
              /\ button_map' = button_map
              /\ touch_device' = touch_device
        /\ (platform_mobile /\ DispatchStep(MouseEventTypes)) =>
              /\ pointers' = pointers
              /\ button_map' = button_map
              /\ touch_device => touch_device' ]_vars

\* C21, what the handlers do instead: on a build that is not mobile the dispatch of a finger
\* event changes no pointer, no button and not touch_device; on a mobile
\* build the dispatch of a mouse motion event changes none of them either,
\* but the dispatch of a mouse button event does what it does on every
\* build: it clears touch_device, gives the button of pointer b - 1 the
\* event's state, marks slot 0 used and, when the event names a window,
\* sets the position of pointer 0.
C21_MouseButtonNotFilteredOnMobile ==
    [][ /\ (~platform_mobile /\ DispatchStep(FingerEventTypes)) =>
              /\ pointers' = pointers
              /\ button_map' = button_map
              /\ touch_device' = touch_device
        /\ (platform_mobile /\ DispatchStep({"SDL_MOUSEMOTION"})) =>
              /\ pointers' = pointers
              /\ button_map' = button_map
              /\ touch_device' = touch_device
        /\ (platform_mobile
              /\ DispatchStep({"SDL_MOUSEBUTTONDOWN", "SDL_MOUSEBUTTONUP"})) =>
              LET ev == Head(sdl_queue)
              IN  /\ ~touch_device'
                  /\ button_map' = UpdateButton(button_map,
                                                PointerCode(ev.which - 1), ev.pressed)
                  /\ pointers'[0].used
                  /\ pointers'[0].mousepos =
                        IF ev.windowID # 0 THEN ev.x ELSE pointers[0].mousepos
      ]_vars

C21_Witness ==
    /\ platform_mobile
    /\ touch_fingers # {}
    /\ sdl_queue = << >>
    /\ mouse_marked
    /\ ~touch_device
    /\ button_map[PointerCode(1)].is_down

JoyDeviceEventTypes == {"SDL_JOYDEVICEADDED", "SDL_JOYDEVICEREMOVED"}

\* C8: a joystick record, once made, is there in every later state; the
\* dispatch of a device-added or device-removed event changes nothing of a
\* record but its native handle, which afterwards is null for every device
\* that is not connected.
C8_JoystickRecordsPersist ==
    [][ /\ \A id \in DOMAIN joystick_map : id \in DOMAIN joystick_map'
        /\ DispatchStep(JoyDeviceEventTypes) =>
              \A id \in DOMAIN joystick_map :
                 /\ joystick_map'[id].buttons = joystick_map[id].buttons
                 /\ joystick_map'[id].axes = joystick_map[id].axes
                 /\ joystick_map'[id].hats = joystick_map[id].hats
                 /\ (\A i \in 1..Len(sdl_joysticks) : sdl_joysticks[i] # id)
                       => joystick_map'[id].joystick_data = "nullptr" ]_vars

C8_Witness ==
    /\ 0 \in DOMAIN joystick_map
    /\ joystick_map[0].joystick_data = "nullptr"
    /\ joystick_map[0].buttons[0].is_down
    /\ joystick_map[0].hats[0] # NewJoystick.hats[0]
    /\ sdl_queue = << >>

\* ---- claims about the head mounted display input ------------------------

\* the step in which HeadMountedDisplayInput::AdvanceFrame returns
HMDFrameReturns == pc_hmd.frame = "clear_pending" /\ pc_hmd'.frame = "idle"

\* the step in which HeadMountedDisplayInput::AdvanceFrame reads the
\* orientation and commits the trigger
HMDFrameCommits == pc_hmd.frame = "idle" /\ pc_hmd'.frame = "clear_pending"

\* the table of the correction: the turn about Y on the right and the turn
\* about Z on the left for the orientations 0, 90, 180 and 270 degrees, in
\* quarter turns
BasePreRotation == << 1, 0, 3, 2 >>
BasePostRotation == << 3, 0, 1, 2 >>

\* (orientation at the last reset, orientation now), both in quarter turns
CrossPairs == { << 2, 0 >>, << 0, 2 >>, << 3, 1 >>, << 1, 3 >> }

ExpectedTransform(h, raw) ==
    LET now == h.device_orientation_
        listed == h.use_device_orientation_correction_ /\ now \in 0..3
        flip == IF << h.device_orientation_at_reset_, now >> \in CrossPairs
                THEN 2 ELSE 0
    IN  IF listed
        THEN Transform(BasePostRotation[now + 1], raw,
                       (BasePreRotation[now + 1] + flip) % 4)
        ELSE Transform(0, raw, 0)

\* C22: the transforms that AdvanceFrame leaves are, with correction enabled
\* and an orientation of 0, 90, 180 or 270 degrees, post * raw * pre with the
\* table's turn about Z for that orientation as post and the table's turn
\* about Y as pre, plus a half turn exactly when (orientation at the last
\* reset, orientation now) is (180,0), (0,180), (270,90) or (90,270); the same
\* pair is applied to head, left eye and right eye; with correction disabled
\* or an orientation outside the table the three are the raw matrices.
C22_CorrectionIsTableWithCrossFlip ==
    [][ HMDFrameCommits =>
          LET h == head_mounted_display_input_
              after == head_mounted_display_input_'
          IN  /\ after.head_transform_ = ExpectedTransform(h, "head")
              /\ after.left_eye_transform_ = ExpectedTransform(h, "left_eye")
              /\ after.right_eye_transform_ = ExpectedTransform(h, "right_eye")
      ]_vars

C22_Witness ==
    /\ head_mounted_display_input_.use_device_orientation_correction_
    /\ head_mounted_display_input_.device_orientation_ = 0
    /\ head_mounted_display_input_.device_orientation_at_reset_ = 2
    /\ head_mounted_display_input_.head_transform_ = Transform(3, "head", 3)
    /\ head_mounted_display_input_.right_eye_transform_ = Transform(3, "right_eye", 3)
    /\ pc_hmd.frame = "idle"

\* C11: when AdvanceFrame returns, triggered_ is true iff OnTrigger was
\* called since the previous AdvanceFrame returned (once or several times),
\* and pending_trigger_ is false: a trigger shows for one frame.
C11_TriggerSingleFrameEdge ==
    [][ HMDFrameReturns =>
           /\ head_mounted_display_input_'.triggered_ = (hmd_obs.calls > 0)
           /\ ~head_mounted_display_input_'.pending_trigger_ ]_vars

\* C19: g_head_mounted_display_input is non-null exactly between
\* InitHMDJNIReference and ClearHMDJNIReference, and a callback that comes
\* while it is null is ignored: no assertion fails in a callback and no
\* member is called through the null pointer.
C19_ReferenceNullChecked ==
    /\ (g_head_mounted_display_input # "nullptr") <=> hmd_obs.attached
    /\ hmd_obs.failed \in {"none", "assert"}

\* C20: no notification is lost.  AdvanceFrame clears no pending trigger it
\* has not committed to triggered_; and with the object attached and no
\* callback running, the orientation AdvanceFrame reads is the one last
\* notified, were it notified before the object was attached.
C20_NoNotificationLost ==
    [][ /\ HMDFrameReturns =>
              (head_mounted_display_input_.pending_trigger_
                  => head_mounted_display_input_.triggered_)
        /\ (HMDFrameCommits /\ pc_hmd.jni = "idle" /\ hmd_obs.attached
               /\ hmd_obs.notified # -1) =>
              head_mounted_display_input_.device_orientation_ = hmd_obs.notified
      ]_vars

\* ---- claims about touch events for a contact without a slot -------------

\* the event UpdateEvents is about to dispatch is a touch event of one of
\* the types, on a mobile build, and no slot in use holds its finger id
UnmatchedTouch(types) ==
    /\ platform_mobile
    /\ Polled(types)
    /\ \A i \in PointerIndices :
          ~(pointers[i].used /\ pointers[i].id = Head(sdl_queue).which)

\* the slot FindPointer gives an id no slot in use holds
FallbackSlot ==
    LET free == { i \in PointerIndices : ~pointers[i].used }
    IN  IF free # {} THEN LeastOf(free) ELSE 0

GamepadProcessStep ==
    /\ pc_handle = "loop"
    /\ unhandled_java_input_events # << >>
    /\ unhandled_java_input_events' = QueuePop(unhandled_java_input_events)

\* C14: HandleGamepadEvents holds the mutex only while it moves the queued
\* events out of the queue: the frame thread does not hold the mutex in a
\* step that processes an event.
C14_MutexReleasedBeforeProcessing ==
    [][ GamepadProcessStep => android_event_mutex # FrameThread ]_vars

\* the control the table gives a key code, any entry of the table counted
TableControl(java_keycode) ==
    LET hits == { i \in 1..Len(kJavaToGamepadMap) :
                    kJavaToGamepadMap[i][1] = java_keycode }
    IN  IF hits = {} THEN "kInvalid"
        ELSE kJavaToGamepadMap[LeastOf(hits)][2]

\* C15: a key event whose code is in the table, the last entries included,
\* sets the Button of the table's control to the event's state and changes
\* no other Button; a key event with any other code changes no Button; the
\* scan reads no entry past the end of the table.
C15_EveryTablePairMapped ==
    [][ (/\ GamepadProcessStep
         /\ QueueFront(unhandled_java_input_events).event.event_code
               \in {"AKEY_EVENT_ACTION_DOWN", "AKEY_EVENT_ACTION_UP"}) =>
           LET ev == QueueFront(unhandled_java_input_events).event
               control == TableControl(ev.control_code)
               before == GetGamepad(gamepad_map, ev.device_id)[ev.device_id].button_list
               after == gamepad_map'[ev.device_id].button_list
           IN  /\ kControlCount <= Len(kJavaToGamepadMap)
               /\ \A c \in GamepadInputButton :
                     IF c = control
                     THEN after[c] = Button_Update(before[c],
                                        ev.event_code = "AKEY_EVENT_ACTION_DOWN")
                     ELSE after[c] = before[c] ]_vars

DirectionalControls == {"kLeft", "kRight", "kUp", "kDown"}

\* C16: after a motion event (x, y) is processed, of the gamepad of its
\* device kLeft is down iff x < -kGamepadHatThreshold, kRight iff
\* x > kGamepadHatThreshold, kUp iff y < -kGamepadHatThreshold and kDown iff
\* y > kGamepadHatThreshold, whatever they were before; kLeft and kRight are
\* not both down, nor kUp and kDown; no other Button has changed.
C16_MotionSetsDirections ==
    [][ (/\ GamepadProcessStep
         /\ QueueFront(unhandled_java_input_events).event.event_code
               = "AMOTION_EVENT_ACTION_MOVE") =>
           LET ev == QueueFront(unhandled_java_input_events).event
               before == GetGamepad(gamepad_map, ev.device_id)[ev.device_id].button_list
               after == gamepad_map'[ev.device_id].button_list
           IN  /\ after["kLeft"].is_down = (ev.x < -kGamepadHatThreshold)
               /\ after["kRight"].is_down = (ev.x > kGamepadHatThreshold)
               /\ after["kUp"].is_down = (ev.y < -kGamepadHatThreshold)
               /\ after["kDown"].is_down = (ev.y > kGamepadHatThreshold)
               /\ ~(after["kLeft"].is_down /\ after["kRight"].is_down)
               /\ ~(after["kUp"].is_down /\ after["kDown"].is_down)
               /\ \A c \in GamepadInputButton \ DirectionalControls :
                     after[c] = before[c] ]_vars

C16_Witness ==
    /\ 1 \in DOMAIN gamepad_map
    /\ gamepad_map[1].button_list["kLeft"].is_down
    /\ gamepad_map[1].button_list["kUp"].is_down
    /\ gamepad_map[1].button_list["kButtonA"].is_down
    /\ pc_handle = "idle"

\* ---- claims about axis and hat values -----------------------------------

\* a / b of AxisValue lies in [-1, 1]
InUnitRange(q) == -q[2] <= q[1] /\ q[1] <= q[2]

\* C12: every axis of every joystick holds a value in [-1, 1], for every raw
\* value of -32768..32767 an axis event can carry.
C12_AxisInUnitRange ==
    \A id \in DOMAIN joystick_map :
       \A i \in JoystickControls : InUnitRange(joystick_map[id].axes[i])

\* the direction bits of a hat value: SDL_HAT_UP 1, SDL_HAT_RIGHT 2,
\* SDL_HAT_DOWN 4, SDL_HAT_LEFT 8
HatBit(v, b) == (v \div b) % 2

\* the nine hat positions: centred, the four directions, the four diagonals
HatPositions == {0, 1, 2, 4, 8, 3, 6, 9, 12}

\* the vector of a hat value: x is right minus left and y is down minus up
\* for the nine positions, (0, 0) for any other value
HatCompass(v) ==
    IF v \in HatPositions
    THEN << HatBit(v, 2) - HatBit(v, 8), HatBit(v, 4) - HatBit(v, 1) >>
    ELSE << 0, 0 >>

\* C13: the dispatch of a hat event stores, for each of the nine hat
\* positions, the vector with x = right - left and y = down - up (components
\* in {-1, 0, 1}, up negative y, left negative x, centred (0, 0)), a vector no
\* other position gives, and (0, 0) for every other value; the event is
\* consumed and UpdateEvents goes on polling.
C13_HatVectorTotal ==
    [][ DispatchStep({"SDL_JOYHATMOTION"}) =>
           LET ev == Head(sdl_queue)
               vec == joystick_map'[ev.which].hats[ev.index]
           IN  /\ vec = HatCompass(ev.value)
               /\ vec[1] \in {-1, 0, 1} /\ vec[2] \in {-1, 0, 1}
               /\ ev.value \in HatPositions =>
                     \A w \in HatPositions \ {ev.value} :
                        ConvertHatToVector(w) # vec
               /\ pc_update' = "polling" ]_vars

C13_Witness ==
    /\ 0 \in DOMAIN joystick_map
    /\ joystick_map[0].hats[0] = << -1, 1 >>
    /\ pc_update = "polling"
    /\ sdl_queue # << >>
    /\ Head(sdl_queue).type = "SDL_JOYHATMOTION"
    /\ Head(sdl_queue).value = 255

\* the instance ids of the devices SDL reports as connected
ConnectedJoysticks == { sdl_joysticks[i] : i \in 1..Len(sdl_joysticks) }

\* C18: when a device-added or device-removed event has been handled, every
\* device SDL reports as connected has a record, and a record has a native
\* handle iff its device is one of them.
C18_HandlesFollowConnectedDevices ==
    [][ DispatchStep(JoyDeviceEventTypes) =>
           /\ ConnectedJoysticks \subseteq DOMAIN joystick_map'
           /\ \A id \in DOMAIN joystick_map' :
                 (joystick_map'[id].joystick_data # "nullptr")
                    <=> id \in ConnectedJoysticks ]_vars

C18_Witness ==
    /\ DOMAIN joystick_map = {0, 1}
    /\ joystick_map[0].joystick_data = "nullptr"
    /\ joystick_map[1].joystick_data # "nullptr"
    /\ sdl_joysticks = << 1 >>
    /\ sdl_queue = << >>
    /\ pc_update = "polling"

\* C9: when HandleAppEvents has returned, it returned 0 for a lifecycle
\* event and 1 for any other event; for a lifecycle event other than
\* terminating it called each registered callback once, in registration
\* order, with the event, each call seeing the minimized flag as the event
\* set it; for a terminating event and for any other event it called none.
C9_CallbacksOncePerLifecycleEvent ==
    (pc_app = "idle" /\ app_return.type # "none") =>
        LET type == app_return.type
        IN  /\ app_return.passthrough = IF type \in LifecycleEvents THEN 0 ELSE 1
            /\ type \in LifecycleEvents \ {"SDL_APP_TERMINATING"} =>
                  /\ Len(callback_log) = Len(app_return.callbacks)
                  /\ \A k \in 1..Len(callback_log) :
                        /\ callback_log[k].callback = app_return.callbacks[k]
                        /\ callback_log[k].event = type
                        /\ callback_log[k].minimized = minimized
                        /\ type = "SDL_APP_WILLENTERBACKGROUND"
                              => callback_log[k].minimized
                        /\ type = "SDL_APP_DIDENTERFOREGROUND"
                              => ~callback_log[k].minimized
            /\ type \notin LifecycleEvents \ {"SDL_APP_TERMINATING"} =>
                  callback_log = << >>

C9_Witness ==
    /\ pc_app = "idle"
    /\ app_return.type = "SDL_APP_DIDENTERFOREGROUND"
    /\ Len(app_event_callbacks) = MaxCallbacks
    /\ Len(callback_log) = MaxCallbacks
    /\ callback_log[1].callback = 1
    /\ minimized_frame = 1

====
